---- MODULE Spec2Model ----
(***************************************************************************)
(* SitePanda desktop: the ingestion -> store -> notification pipeline      *)
(* (DatabaseManager, DataFetcher, WebhookManager) and the SEO audit        *)
(* orchestrator (SEOAuditor), as state machines.                           *)
(*                                                                         *)
(* Tables are sets of rows; every row carries its AUTOINCREMENT id.  The   *)
(* ingestion cycle, the notification cycle and the audit are processes     *)
(* whose steps are the store and network calls of their code, so that the  *)
(* cycles interleave at the granularity of one call.  Timestamps           *)
(* (last_updated, timestamp) and the JSON text of payload columns carry no *)
(* control and are left out of the rows.                                   *)
(***************************************************************************)
EXTENDS Integers, Sequences, FiniteSets, TLC

VARIABLES
    storeUp,    \* TRUE while the SQLite store answers; FALSE makes every call raise inside
    duda,       \* the provider account: the site names and record dates it returns
    sites,      \* table sites: set of rows, keyed by site_name
    forms,      \* table form_submissions: set of rows, keyed by id
    orders,     \* table ecommerce_orders: set of rows, keyed by id, order_id UNIQUE
    seq,        \* sqlite_sequence: highest id ever handed out, per table
    log,        \* table webhook_log, in insertion order
    webhooks,   \* WebhookManager.webhooks: event type -> destination ("" = none)
    fetch,      \* the ingestion cycle (DataFetcher.fetch_all_data) in progress
    wh,         \* the notification cycle (process_all_pending_webhooks) in progress
    wh2,        \* a second notification cycle, started before the first has ended
    products,   \* table ecommerce_products: set of rows, UNIQUE(site_name, product_id)
    now,        \* the clock read for last_updated (advances only where a claim needs it)
    query,      \* the last read made by a caller outside the cycles, and its result
    audits,     \* table seo_audits
    run         \* the audit (SEOAuditor.run_audit) in progress

vars == <<storeUp, duda, wh2, products, now, sites, forms, orders, seq, log,
          webhooks, fetch, wh, query, audits, run>>

----------------------------------------------------------------------------
(* Bounds of the model *)

MaxForms     == 2    \* form_submissions rows ever inserted
MaxOrderRows == 2    \* ecommerce_orders ids ever handed out
MaxLog       == 2    \* webhook_log rows ever inserted
MaxAudits    == 2    \* seo_audits rows ever inserted
MaxRows      == 3    \* rows of a form_submissions table a read is tried on
MaxCalls     == 3    \* store calls made in a row by a direct caller
MaxBatch     == 2    \* records of one kind the provider returns for a site
MaxCycles    == 4    \* ingestion and notification cycles run one after the other

(* Input domains *)

SiteNames   == {"acme", "beta"}
OrderIds    == {"o1", "o2"}
Titles      == {"Acme"}
Dates       == {1, 2}
Domains     == {"example.com", "other.org"}
NoSite      == "*"
\* NULL (None): what a column or a key holds when it is present and empty
Null        == "null"
AllTitles   == {"Acme", "Acme Ltd"}
ProductIds  == {"p1", "p2"}
Prices      == {10, 12}
Urls        == {"", "https://hook"}
StatusCodes == {200, 404}
Responses   == {[kind |-> "http", code |-> c] : c \in StatusCodes}
                  \cup {[kind |-> "timeout", code |-> 0], [kind |-> "error", code |-> 0]}
NoResponse  == [kind |-> "none", code |-> 0]
AllStatusCodes == {200, 201, 202, 203, 204, 299, 404, 500}
AllResponses   == {[kind |-> "http", code |-> c] : c \in AllStatusCodes}
                     \cup {[kind |-> "timeout", code |-> 0], [kind |-> "error", code |-> 0]}

----------------------------------------------------------------------------
(* DatabaseManager *)

Ids(T) == {r.id : r \in T}

Row(T, id) == CHOOSE r \in T : r.id = id

\* insert_form_submission as it would be with a uniqueness rule on the submission data
InsertFormSubmissionOnce(T, n, d) ==
    IF \E r \in T : r.site_name = d.site_name /\ r.submission_date = d.submission_date
    THEN T
    ELSE T \cup {[id |-> n + 1, site_name |-> d.site_name,
                  submission_date |-> d.submission_date, webhook_sent |-> 0]}

\* insert_form_submission as it would be with an upsert on the submission data
InsertFormSubmissionReplacing(T, n, d) ==
    {r \in T : ~(r.site_name = d.site_name /\ r.submission_date = d.submission_date)}
        \cup {[id |-> n + 1, site_name |-> d.site_name,
               submission_date |-> d.submission_date, webhook_sent |-> 0]}

\* insert_form_submission: plain INSERT; id from AUTOINCREMENT, webhook_sent DEFAULT 0
InsertFormSubmission(T, n, d) ==
    T \cup {[id |-> n + 1, site_name |-> d.site_name,
             submission_date |-> d.submission_date, webhook_sent |-> 0]}

\* insert_ecommerce_order as an update in place (ON CONFLICT DO UPDATE): the stored
\* row keeps its id and its webhook_sent and takes the other columns from the input
InsertEcommerceOrderKeeping(T, n, d) ==
    IF \E r \in T : r.order_id = d.order_id
    THEN {IF r.order_id = d.order_id
          THEN [r EXCEPT !.site_name = d.site_name, !.order_date = d.order_date]
          ELSE r : r \in T}
    ELSE T \cup {[id |-> n + 1, order_id |-> d.order_id, site_name |-> d.site_name,
                  order_date |-> d.order_date, webhook_sent |-> 0]}

\* insert_ecommerce_order: INSERT OR REPLACE; the UNIQUE(order_id) conflict deletes
\* the old row, the new row gets a fresh AUTOINCREMENT id and webhook_sent DEFAULT 0;
\* a NULL order_id conflicts with no row
InsertEcommerceOrder(T, n, d) ==
    {r \in T : r.order_id # d.order_id \/ d.order_id = Null}
        \cup {[id |-> n + 1, order_id |-> d.order_id, site_name |-> d.site_name,
               order_date |-> d.order_date, webhook_sent |-> 0]}

\* insert_product as INSERT OR IGNORE: a stored row of the pair is kept as it is
InsertProductIgnoring(T, n, d) ==
    IF \E r \in T : r.site_name = d.site_name /\ r.product_id = d.product_id
    THEN T
    ELSE T \cup {[id |-> n + 1, site_name |-> d.site_name, product_id |-> d.product_id,
                  price |-> d.price]}

\* insert_product: INSERT OR REPLACE; a UNIQUE(site_name, product_id) conflict deletes
\* the old row, the new row gets a fresh AUTOINCREMENT id and the values of the input;
\* a pair with a NULL in it conflicts with no row
InsertProduct(T, n, d) ==
    {r \in T : \/ ~(r.site_name = d.site_name /\ r.product_id = d.product_id)
               \/ Null \in {d.site_name, d.product_id}}
        \cup {[id |-> n + 1, site_name |-> d.site_name, product_id |-> d.product_id,
               price |-> d.price]}

\* insert_site as a plain INSERT on a table without the primary key
InsertSiteAppending(T, d, t) ==
    T \cup {[site_name |-> d.site_name, site_title |-> d.site_title, last_updated |-> t]}

\* insert_site: INSERT OR REPLACE on the primary key site_name; every column is
\* written from the input, last_updated from the clock; the key is TEXT without
\* NOT NULL, so a NULL site_name is accepted and conflicts with no row
InsertSite(T, d, t) ==
    {r \in T : r.site_name # d.site_name \/ d.site_name = Null}
        \cup {[site_name |-> d.site_name, site_title |-> d.site_title,
               last_updated |-> t]}

\* mark_webhook_sent: UPDATE <table> SET webhook_sent = 1 WHERE id = ?
MarkWebhookSent(T, id) ==
    {IF r.id = id THEN [r EXCEPT !.webhook_sent = 1] ELSE r : r \in T}

\* the WHERE clause of get_form_submissions / get_ecommerce_orders
SelectedUnfiltered(T, site, unprocessed_only) ==
    {r \in T : site # NoSite => r.site_name = site}

Selected(T, site, unprocessed_only) ==
    {r \in T : /\ (site # NoSite => r.site_name = site)
               /\ (unprocessed_only => r.webhook_sent = 0)}

\* ORDER BY <column> DESC: all orderings of the rows R by that column descending
\* (rows with equal values in any order)
OrderedDesc(R, column) ==
    {q \in [1..Cardinality(R) -> R] :
        /\ \A i, j \in 1..Cardinality(R) : i < j =>
              /\ q[i] # q[j]
              /\ q[i][column] >= q[j][column]}

\* get_form_submissions: the possible results (SELECT ... ORDER BY submission_date DESC)
GetFormSubmissions(site, unprocessed_only) ==
    IF storeUp
    THEN OrderedDesc(Selected(forms, site, unprocessed_only), "submission_date")
    ELSE {<<>>}

\* get_ecommerce_orders: the possible results (SELECT ... ORDER BY order_date DESC)
GetEcommerceOrders(site, unprocessed_only) ==
    IF storeUp
    THEN OrderedDesc(Selected(orders, site, unprocessed_only), "order_date")
    ELSE {<<>>}

\* the sites the provider listed, stored or not
GetAllSitesListed == duda.sites

\* get_all_sites: the site names of the stored rows ([] when the store raises)
GetAllSites == IF storeUp THEN {r.site_name : r \in sites} ELSE {}

\* log_webhook as it would be if the log kept the latest attempt of each event only
LogWebhookLatestOnly(L, e) ==
    IF storeUp THEN Append(SelectSeq(L, LAMBDA x : x.event_type # e.event_type), e) ELSE L

\* log_webhook as it would be if only successful attempts were recorded
LogWebhookSuccessOnly(L, e) == IF storeUp /\ e.success = 1 THEN Append(L, e) ELSE L

\* log_webhook: INSERT INTO webhook_log
LogWebhook(L, e) == IF storeUp THEN Append(L, e) ELSE L

----------------------------------------------------------------------------
(* WebhookManager *)

EventTypes == {"new_form_submission", "new_ecommerce_order"}

\* send_webhook line 66: the status codes counted as success
SuccessCodes == {200, 201, 202, 204}

\* send_webhook: the value returned for destination url and the peer's response
SendWebhookAnyResponse(url, resp) == url # ""

\* send_webhook as it would be if a missing destination counted as delivered
SendWebhookUnconfiguredOk(url, resp) ==
    url = "" \/ (resp.kind = "http" /\ resp.code \in SuccessCodes)

SendWebhook(url, resp) ==
    /\ url # ""
    /\ resp.kind = "http"
    /\ resp.code \in SuccessCodes

\* send_webhook: the webhook_log row written for one attempt on a configured destination
WebhookLogEntry(event, url, resp) ==
    [event_type |-> event, webhook_url |-> url,
     response_code |-> IF resp.kind = "http" THEN resp.code ELSE 0,
     success |-> IF SendWebhook(url, resp) THEN 1 ELSE 0]

WhIdle == [pc |-> "idle", step |-> "send", pending |-> <<>>, sent |-> FALSE,
           resp |-> NoResponse, count |-> 0, attempts |-> <<>>,
           result |-> [form_submissions |-> 0, orders |-> 0]]

\* process_new_form_submissions, line 115: read the unprocessed submissions
WhStart ==
    /\ wh.pc = "idle"
    /\ \E q \in GetFormSubmissions(NoSite, TRUE) :
          wh' = [WhIdle EXCEPT !.pc = "forms", !.pending = q]
    /\ UNCHANGED <<storeUp, duda, wh2, products, now, sites, forms, orders, seq, log,
                   webhooks, fetch, query, audits, run>>

\* one send_webhook call of the loop, for the record at the head of the list;
\* wh.attempts keeps, for the cycle, each record tried and what send_webhook returned
WhSend ==
    /\ wh.pc \in {"forms", "orders"}
    /\ wh.step = "send"
    /\ wh.pending # <<>>
    /\ LET rec   == Head(wh.pending)
           event == IF wh.pc = "forms" THEN "new_form_submission"
                    ELSE "new_ecommerce_order"
           url   == webhooks[event]
       IN  IF url = ""
           THEN /\ wh' = [wh EXCEPT !.step = "mark", !.sent = SendWebhook(url, NoResponse),
                            !.resp = NoResponse,
                            !.attempts = Append(@, [rec |-> rec,
                                                   ok |-> SendWebhook(url, NoResponse)])]
                /\ log' = log
           ELSE \E resp \in Responses :
                /\ Len(log) < MaxLog
                /\ log' = LogWebhook(log, WebhookLogEntry(event, url, resp))
                /\ wh' = [wh EXCEPT !.step = "mark", !.sent = SendWebhook(url, resp),
                            !.resp = resp,
                            !.attempts = Append(@, [rec |-> rec,
                                                   ok |-> SendWebhook(url, resp)])]
    /\ UNCHANGED <<storeUp, duda, wh2, products, now, sites, forms, orders, seq,
                   webhooks, fetch, query, audits, run>>

\* the loop as it would be if a record whose delivery failed were kept at the head
\* of the list and tried again
WhMarkRetrying ==
    /\ wh.pc \in {"forms", "orders"}
    /\ wh.step = "mark"
    /\ LET rec == Head(wh.pending)
       IN  /\ forms' = IF wh.pc = "forms" /\ wh.sent /\ storeUp
                       THEN MarkWebhookSent(forms, rec.id) ELSE forms
           /\ orders' = IF wh.pc = "orders" /\ wh.sent /\ storeUp
                        THEN MarkWebhookSent(orders, rec.id) ELSE orders
           /\ wh' = [wh EXCEPT !.step = "send",
                       !.pending = IF wh.sent THEN Tail(@) ELSE @,
                       !.resp = NoResponse, !.sent = FALSE,
                       !.count = IF wh.sent THEN @ + 1 ELSE @]
    /\ UNCHANGED <<storeUp, duda, wh2, products, now, sites, seq, log, webhooks,
                   fetch, query, audits, run>>

\* the body of "if self.send_webhook(...)": mark_webhook_sent and count += 1
WhMark ==
    /\ wh.pc \in {"forms", "orders"}
    /\ wh.step = "mark"
    /\ LET rec == Head(wh.pending)
       IN  /\ forms' = IF wh.pc = "forms" /\ wh.sent /\ storeUp
                       THEN MarkWebhookSent(forms, rec.id) ELSE forms
           /\ orders' = IF wh.pc = "orders" /\ wh.sent /\ storeUp
                        THEN MarkWebhookSent(orders, rec.id) ELSE orders
           /\ wh' = [wh EXCEPT !.step = "send", !.pending = Tail(@),
                       !.resp = NoResponse, !.sent = FALSE,
                       !.count = IF wh.sent THEN @ + 1 ELSE @]
    /\ UNCHANGED <<storeUp, duda, wh2, products, now, sites, seq, log, webhooks,
                   fetch, query, audits, run>>

\* process_new_form_submissions returns; process_new_orders reads the unprocessed orders
WhFormsDone ==
    /\ wh.pc = "forms"
    /\ wh.step = "send"
    /\ wh.pending = <<>>
    /\ \E q \in GetEcommerceOrders(NoSite, TRUE) :
          wh' = [wh EXCEPT !.pc = "orders", !.pending = q, !.count = 0,
                   !.attempts = <<>>,
                   !.result = [@ EXCEPT !.form_submissions = wh.count]]
    /\ UNCHANGED <<storeUp, duda, wh2, products, now, sites, forms, orders, seq, log,
                   webhooks, fetch, query, audits, run>>

\* process_new_orders returns wh.count; process_all_pending_webhooks returns the counts
WhOrdersDone ==
    /\ wh.pc = "orders"
    /\ wh.step = "send"
    /\ wh.pending = <<>>
    /\ wh' = WhIdle
    /\ UNCHANGED <<storeUp, duda, wh2, products, now, sites, forms, orders, seq, log,
                   webhooks, fetch, query, audits, run>>

\* _initialize_clients: a new WebhookManager with the saved destinations; a cycle
\* already running keeps the manager, and so the destinations, it was started with
InitializeClients ==
    /\ wh.pc = "idle"
    /\ \E cfg \in [EventTypes -> Urls] :
          /\ cfg # webhooks
          /\ webhooks' = cfg
    /\ UNCHANGED <<storeUp, duda, wh2, products, now, sites, forms, orders, seq, log,
                   fetch, wh, query, audits, run>>

----------------------------------------------------------------------------
(* DataFetcher *)

FetchIdle == [pc |-> "idle", todo |-> {}, site |-> NoSite]

\* fetch_all_data begins: fetch_all_sites asks the provider for its sites
FetchStart ==
    /\ fetch.pc = "idle"
    /\ fetch' = [FetchIdle EXCEPT !.pc = "sites"]
    /\ UNCHANGED <<storeUp, duda, wh2, products, now, sites, forms, orders, seq, log,
                   webhooks, wh, query, audits, run>>

\* fetch_all_sites, one provider site: insert_site
FetchSite ==
    /\ fetch.pc = "sites"
    /\ \E s \in duda.sites, t \in Titles :
          sites' = IF storeUp
                   THEN InsertSite(sites, [site_name |-> s, site_title |-> t], now)
                   ELSE sites
    /\ UNCHANGED <<storeUp, duda, wh2, products, now, forms, orders, seq, log,
                   webhooks, fetch, wh, query, audits, run>>

\* the move to the next site of "for site in sites", or the end of fetch_all_data
FetchNextSite(todo) ==
    IF todo = {} THEN fetch' = FetchIdle
    ELSE \E s \in todo : fetch' = [pc |-> "forms", todo |-> todo \ {s}, site |-> s]

\* fetch_all_sites returns; fetch_all_data reads get_all_sites and starts on the first
FetchSitesDone ==
    /\ fetch.pc = "sites"
    /\ FetchNextSite(GetAllSites)
    /\ UNCHANGED <<storeUp, duda, wh2, products, now, sites, forms, orders, seq, log,
                   webhooks, wh, query, audits, run>>

\* fetch_form_submissions, one provider submission: insert_form_submission
FetchForm ==
    /\ fetch.pc = "forms"
    /\ seq.form_submissions < MaxForms
    /\ \E d \in duda.dates :
          IF storeUp
          THEN /\ forms' = InsertFormSubmission(forms, seq.form_submissions,
                              [site_name |-> fetch.site, submission_date |-> d])
               /\ seq' = [seq EXCEPT !.form_submissions = @ + 1]
          ELSE UNCHANGED <<forms, seq>>
    /\ UNCHANGED <<storeUp, duda, wh2, products, now, sites, orders, log, webhooks,
                   fetch, wh, query, audits, run>>

\* fetch_form_submissions returns; fetch_ecommerce_data starts on the site's orders
FetchFormsDone ==
    /\ fetch.pc = "forms"
    /\ fetch' = [fetch EXCEPT !.pc = "orders"]
    /\ UNCHANGED <<storeUp, duda, wh2, products, now, sites, forms, orders, seq, log,
                   webhooks, wh, query, audits, run>>

\* fetch_ecommerce_data, one provider order: insert_ecommerce_order
FetchOrder ==
    /\ fetch.pc = "orders"
    /\ seq.ecommerce_orders < MaxOrderRows
    /\ \E o \in OrderIds, d \in duda.dates :
          IF storeUp
          THEN /\ orders' = InsertEcommerceOrder(orders, seq.ecommerce_orders,
                              [order_id |-> o, site_name |-> fetch.site, order_date |-> d])
               /\ seq' = [seq EXCEPT !.ecommerce_orders = @ + 1]
          ELSE UNCHANGED <<orders, seq>>
    /\ UNCHANGED <<storeUp, duda, wh2, products, now, sites, forms, log, webhooks,
                   fetch, wh, query, audits, run>>

\* fetch_ecommerce_data returns (also when the store is not enabled for the site)
FetchOrdersDone ==
    /\ fetch.pc = "orders"
    /\ FetchNextSite(fetch.todo)
    /\ UNCHANGED <<storeUp, duda, wh2, products, now, sites, forms, orders, seq, log,
                   webhooks, wh, query, audits, run>>

----------------------------------------------------------------------------
(* The pipeline: one ingestion cycle and one notification cycle at a time, *)
(* running concurrently, on a store that answers.                          *)

RunIdle   == [pc |-> "idle"]
QueryNone == [kind |-> "none", site |-> NoSite, unprocessed_only |-> FALSE, rows |-> <<>>]
SeqZero   == [form_submissions |-> 0, ecommerce_orders |-> 0, ecommerce_products |-> 0,
              seo_audits |-> 0]

Init ==
    /\ storeUp = TRUE
    /\ duda = [sites |-> {"acme"}, dates |-> {1}]
    /\ sites = {}
    /\ forms = {}
    /\ orders = {}
    /\ seq = SeqZero
    /\ log = <<>>
    /\ webhooks \in [EventTypes -> Urls]
    /\ fetch = FetchIdle
    /\ wh = WhIdle
    /\ wh2 = WhIdle
    /\ products = {}
    /\ now = 0
    /\ query = QueryNone
    /\ audits = {}
    /\ run = RunIdle

Next ==
    \/ FetchStart
    \/ FetchSite
    \/ FetchSitesDone
    \/ FetchForm
    \/ FetchFormsDone
    \/ FetchOrder
    \/ FetchOrdersDone
    \/ WhStart
    \/ WhSend
    \/ WhMark
    \/ WhFormsDone
    \/ WhOrdersDone
    \/ InitializeClients

Spec == Init /\ [][Next]_vars
----------------------------------------------------------------------------
(* Reads by callers outside the cycles (the display refresh, a test), on   *)
(* tables drawn from every content the inserts and marks can leave.        *)

FormData == [site_name : SiteNames, submission_date : Dates, webhook_sent : {0, 1}]

\* the form_submissions tables of n rows: ids 1..n, no row ever deleted
FormTables(n) ==
    {{[id |-> i, site_name |-> f[i].site_name, submission_date |-> f[i].submission_date,
       webhook_sent |-> f[i].webhook_sent] : i \in 1..n} : f \in [1..n -> FormData]}

OrderData == [site_name : SiteNames, order_date : Dates, webhook_sent : {0, 1}]

\* the ecommerce_orders tables: distinct ids out of 1..MaxOrderRows, order_id UNIQUE
OrderTables ==
    UNION {{{[id |-> g[o], order_id |-> o, site_name |-> f[o].site_name,
              order_date |-> f[o].order_date, webhook_sent |-> f[o].webhook_sent] : o \in O} :
              f \in [O -> OrderData],
              g \in {h \in [O -> 1..MaxOrderRows] : \A a, b \in O : a # b => h[a] # h[b]}} :
           O \in SUBSET OrderIds}

\* get_form_submissions(site_name, unprocessed_only) called, its result kept
QueryForms ==
    /\ \E site \in SiteNames \cup {NoSite}, u \in BOOLEAN :
       \E q \in GetFormSubmissions(site, u) :
          query' = [kind |-> "forms", site |-> site, unprocessed_only |-> u, rows |-> q]
    /\ UNCHANGED <<storeUp, duda, wh2, products, now, sites, forms, orders, seq, log,
                   webhooks, fetch, wh, audits, run>>

\* get_ecommerce_orders(site_name, unprocessed_only) called, its result kept
QueryOrders ==
    /\ \E site \in SiteNames \cup {NoSite}, u \in BOOLEAN :
       \E q \in GetEcommerceOrders(site, u) :
          query' = [kind |-> "orders", site |-> site, unprocessed_only |-> u, rows |-> q]
    /\ UNCHANGED <<storeUp, duda, wh2, products, now, sites, forms, orders, seq, log,
                   webhooks, fetch, wh, audits, run>>

InitQuery ==
    /\ storeUp = TRUE
    /\ duda = [sites |-> SiteNames, dates |-> Dates]
    /\ sites = {[site_name |-> s, site_title |-> "Acme", last_updated |-> 0] : s \in SiteNames}
    /\ \/ /\ \E n \in 0..MaxRows :
               /\ forms \in FormTables(n)
               /\ seq = [SeqZero EXCEPT !.form_submissions = n]
          /\ orders = {}
       \/ /\ forms = {}
          /\ orders \in OrderTables
          /\ seq = [SeqZero EXCEPT !.ecommerce_orders = MaxOrderRows]
    /\ log = <<>>
    /\ webhooks = [e \in EventTypes |-> ""]
    /\ fetch = FetchIdle
    /\ wh = WhIdle
    /\ wh2 = WhIdle
    /\ products = {}
    /\ now = 0
    /\ query = QueryNone
    /\ audits = {}
    /\ run = RunIdle

NextQuery ==
    \/ QueryForms
    \/ QueryOrders

SpecQuery == InitQuery /\ [][NextQuery]_vars
----------------------------------------------------------------------------
(* The store API called directly, one call after the other (a test, a       *)
(* script): query keeps the last call, its input and the table before it.   *)
(* The clock advances with every call, so that last_updated differs.        *)

SiteInputs == [site_name : SiteNames, site_title : AllTitles]
FormInputs == [site_name : SiteNames, submission_date : Dates]
OrderInputs == [order_id : OrderIds, site_name : SiteNames, order_date : Dates]
ProductInputs == [site_name : SiteNames, product_id : ProductIds, price : Prices]

StoreCall(kind, data, before) == [kind |-> kind, data |-> data, before |-> before]

\* insert_site(site_data)
CallInsertSite ==
    /\ now < MaxCalls
    /\ \E d \in SiteInputs :
          /\ sites' = InsertSite(sites, d, now)
          /\ query' = StoreCall("insert_site", d, sites)
    /\ now' = now + 1
    /\ UNCHANGED <<storeUp, duda, wh2, products, forms, orders, seq, log, webhooks, fetch,
                   wh, audits, run>>

\* insert_form_submission(submission_data)
CallInsertFormSubmission ==
    /\ now < MaxCalls
    /\ \E d \in FormInputs :
          /\ forms' = InsertFormSubmission(forms, seq.form_submissions, d)
          /\ query' = StoreCall("insert_form_submission", d, forms)
    /\ seq' = [seq EXCEPT !.form_submissions = @ + 1]
    /\ now' = now + 1
    /\ UNCHANGED <<storeUp, duda, wh2, products, sites, orders, log, webhooks, fetch, wh,
                   audits, run>>

\* insert_ecommerce_order(order_data)
CallInsertEcommerceOrder ==
    /\ now < MaxCalls
    /\ \E d \in OrderInputs :
          /\ orders' = InsertEcommerceOrder(orders, seq.ecommerce_orders, d)
          /\ query' = StoreCall("insert_ecommerce_order", d, orders)
    /\ seq' = [seq EXCEPT !.ecommerce_orders = @ + 1]
    /\ now' = now + 1
    /\ UNCHANGED <<storeUp, duda, wh2, products, sites, forms, log, webhooks, fetch, wh,
                   audits, run>>

\* insert_product(product_data)
CallInsertProduct ==
    /\ now < MaxCalls
    /\ \E d \in ProductInputs :
          /\ products' = InsertProduct(products, seq.ecommerce_products, d)
          /\ query' = StoreCall("insert_product", d, products)
    /\ seq' = [seq EXCEPT !.ecommerce_products = @ + 1]
    /\ now' = now + 1
    /\ UNCHANGED <<storeUp, duda, wh2, sites, forms, orders, log, webhooks, fetch, wh,
                   audits, run>>

\* mark_webhook_sent(table, record_id), on any id a caller may hold
CallMarkWebhookSent ==
    /\ now < MaxCalls
    /\ \E id \in 1..MaxCalls :
          \/ /\ forms' = MarkWebhookSent(forms, id)
             /\ query' = StoreCall("mark_webhook_sent", id, forms)
             /\ UNCHANGED orders
          \/ /\ orders' = MarkWebhookSent(orders, id)
             /\ query' = StoreCall("mark_webhook_sent", id, orders)
             /\ UNCHANGED forms
    /\ now' = now + 1
    /\ UNCHANGED <<storeUp, duda, wh2, products, sites, seq, log, webhooks, fetch, wh,
                   audits, run>>

InitStore ==
    /\ storeUp = TRUE
    /\ duda = [sites |-> SiteNames, dates |-> Dates]
    /\ sites = {}
    /\ forms = {}
    /\ orders = {}
    /\ products = {}
    /\ now = 0
    /\ seq = SeqZero
    /\ log = <<>>
    /\ webhooks = [e \in EventTypes |-> ""]
    /\ fetch = FetchIdle
    /\ wh = WhIdle
    /\ wh2 = WhIdle
    /\ query = QueryNone
    /\ audits = {}
    /\ run = RunIdle

NextStore ==
    \/ CallInsertSite
    \/ CallInsertFormSubmission
    \/ CallInsertEcommerceOrder
    \/ CallInsertProduct
    \/ CallMarkWebhookSent

SpecStore == InitStore /\ [][NextStore]_vars
----------------------------------------------------------------------------
(* send_webhook called directly (test_webhook, send_daily_stats_summary, a   *)
(* test), against a peer that may answer with any status code, time out or   *)
(* drop the connection; query keeps the last call and what came of it.       *)

\* send_webhook as it would be if the notifier itself marked the record delivered
CallSendWebhookMarking ==
    /\ \E event \in EventTypes, resp \in AllResponses :
          LET url == webhooks[event]
          IN  /\ url # ""
              /\ Len(log) < MaxLog
              /\ log' = LogWebhook(log, WebhookLogEntry(event, url, resp))
              /\ forms' = IF SendWebhook(url, resp) /\ event = "new_form_submission"
                          THEN MarkWebhookSent(forms, 1) ELSE forms
              /\ orders' = IF SendWebhook(url, resp) /\ event = "new_ecommerce_order"
                           THEN MarkWebhookSent(orders, 1) ELSE orders
              /\ query' = [kind |-> "send_webhook", event |-> event,
                           request |-> TRUE, resp |-> resp,
                           result |-> SendWebhook(url, resp), before |-> log]
    /\ UNCHANGED <<storeUp, duda, wh2, products, now, sites, seq, webhooks, fetch, wh,
                   audits, run>>

\* send_webhook(event_type, payload)
CallSendWebhook ==
    /\ \E event \in EventTypes :
          LET url == webhooks[event]
          IN  IF url = ""
              THEN /\ query' = [kind |-> "send_webhook", event |-> event,
                                request |-> FALSE, resp |-> NoResponse,
                                result |-> SendWebhook(url, NoResponse), before |-> log]
                   /\ log' = log
              ELSE \E resp \in AllResponses :
                   /\ Len(log) < MaxLog
                   /\ log' = LogWebhook(log, WebhookLogEntry(event, url, resp))
                   /\ query' = [kind |-> "send_webhook", event |-> event,
                                request |-> TRUE, resp |-> resp,
                                result |-> SendWebhook(url, resp), before |-> log]
    /\ UNCHANGED <<storeUp, duda, wh2, products, now, sites, forms, orders, seq,
                   webhooks, fetch, wh, audits, run>>

InitSend ==
    /\ storeUp = TRUE
    /\ duda = [sites |-> {"acme"}, dates |-> {1}]
    /\ sites = {[site_name |-> "acme", site_title |-> "Acme", last_updated |-> 0]}
    /\ forms = InsertFormSubmission({}, 0, [site_name |-> "acme", submission_date |-> 1])
    /\ orders = InsertEcommerceOrder({}, 0, [order_id |-> "o1", site_name |-> "acme",
                                           order_date |-> 1])
    /\ products = {}
    /\ now = 0
    /\ seq = [SeqZero EXCEPT !.form_submissions = 1, !.ecommerce_orders = 1]
    /\ log = <<>>
    /\ webhooks \in [EventTypes -> Urls]
    /\ fetch = FetchIdle
    /\ wh = WhIdle
    /\ wh2 = WhIdle
    /\ query = QueryNone
    /\ audits = {}
    /\ run = RunIdle

NextSend ==
    \/ CallSendWebhook

SpecSend == InitSend /\ [][NextSend]_vars
----------------------------------------------------------------------------
(* Two notification cycles at once: _on_fetch_finished re-enables the fetch  *)
(* button and starts a WebhookThread; a second fetch that ends while that    *)
(* thread is still sending starts another one on the same WebhookManager.    *)
(* The steps of the second cycle are those of the first, on wh2.             *)

Wh2Start ==
    /\ wh2.pc = "idle"
    /\ \E q \in GetFormSubmissions(NoSite, TRUE) :
          wh2' = [WhIdle EXCEPT !.pc = "forms", !.pending = q]
    /\ UNCHANGED <<storeUp, duda, products, now, sites, forms, orders, seq, log,
                   webhooks, fetch, wh, query, audits, run>>

Wh2Send ==
    /\ wh2.pc \in {"forms", "orders"}
    /\ wh2.step = "send"
    /\ wh2.pending # <<>>
    /\ LET rec   == Head(wh2.pending)
           event == IF wh2.pc = "forms" THEN "new_form_submission"
                    ELSE "new_ecommerce_order"
           url   == webhooks[event]
       IN  IF url = ""
           THEN /\ wh2' = [wh2 EXCEPT !.step = "mark",
                             !.sent = SendWebhook(url, NoResponse),
                             !.resp = NoResponse,
                             !.attempts = Append(@, [rec |-> rec,
                                                    ok |-> SendWebhook(url, NoResponse)])]
                /\ log' = log
           ELSE \E resp \in Responses :
                /\ Len(log) < MaxLog
                /\ log' = LogWebhook(log, WebhookLogEntry(event, url, resp))
                /\ wh2' = [wh2 EXCEPT !.step = "mark", !.sent = SendWebhook(url, resp),
                             !.resp = resp,
                             !.attempts = Append(@, [rec |-> rec,
                                                    ok |-> SendWebhook(url, resp)])]
    /\ UNCHANGED <<storeUp, duda, products, now, sites, forms, orders, seq, webhooks,
                   fetch, wh, query, audits, run>>

Wh2Mark ==
    /\ wh2.pc \in {"forms", "orders"}
    /\ wh2.step = "mark"
    /\ LET rec == Head(wh2.pending)
       IN  /\ forms' = IF wh2.pc = "forms" /\ wh2.sent /\ storeUp
                       THEN MarkWebhookSent(forms, rec.id) ELSE forms
           /\ orders' = IF wh2.pc = "orders" /\ wh2.sent /\ storeUp
                        THEN MarkWebhookSent(orders, rec.id) ELSE orders
           /\ wh2' = [wh2 EXCEPT !.step = "send", !.pending = Tail(@),
                        !.resp = NoResponse, !.sent = FALSE,
                        !.count = IF wh2.sent THEN @ + 1 ELSE @]
    /\ UNCHANGED <<storeUp, duda, products, now, sites, seq, log, webhooks, fetch,
                   wh, query, audits, run>>

Wh2FormsDone ==
    /\ wh2.pc = "forms"
    /\ wh2.step = "send"
    /\ wh2.pending = <<>>
    /\ \E q \in GetEcommerceOrders(NoSite, TRUE) :
          wh2' = [wh2 EXCEPT !.pc = "orders", !.pending = q, !.count = 0,
                    !.attempts = <<>>,
                    !.result = [@ EXCEPT !.form_submissions = wh2.count]]
    /\ UNCHANGED <<storeUp, duda, products, now, sites, forms, orders, seq, log,
                   webhooks, fetch, wh, query, audits, run>>

Wh2OrdersDone ==
    /\ wh2.pc = "orders"
    /\ wh2.step = "send"
    /\ wh2.pending = <<>>
    /\ wh2' = WhIdle
    /\ UNCHANGED <<storeUp, duda, products, now, sites, forms, orders, seq, log,
                   webhooks, fetch, wh, query, audits, run>>

\* the stored submissions the two cycles start on: those of one site and date that
\* one or two ingestion cycles leave, some of them already delivered
InitCycles ==
    /\ storeUp = TRUE
    /\ duda = [sites |-> {"acme"}, dates |-> {1}]
    /\ sites = {[site_name |-> "acme", site_title |-> "Acme", last_updated |-> 0]}
    /\ \E n \in 1..MaxForms :
          /\ forms \in {T \in FormTables(n) :
                          \A r \in T : r.site_name = "acme" /\ r.submission_date = 1}
          /\ seq = [SeqZero EXCEPT !.form_submissions = n]
    /\ orders = {}
    /\ log = <<>>
    /\ webhooks \in [EventTypes -> Urls]
    /\ fetch = FetchIdle
    /\ wh = WhIdle
    /\ wh2 = WhIdle
    /\ products = {}
    /\ now = 0
    /\ query = QueryNone
    /\ audits = {}
    /\ run = RunIdle

NextCycles ==
    \/ WhStart
    \/ WhSend
    \/ WhMark
    \/ WhFormsDone
    \/ WhOrdersDone
    \/ Wh2Start
    \/ Wh2Send
    \/ Wh2Mark
    \/ Wh2FormsDone
    \/ Wh2OrdersDone

SpecCycles == InitCycles /\ [][NextCycles]_vars
----------------------------------------------------------------------------
(* SEOAuditor *)

\* the DataForSEO calls of _fetch_dataforseo_data, in call order
DfsCalls == {"crawl", "competitors", "backlinks", "referring_domains", "keywords",
             "domain_metrics"}

\* the keys one try block of _fetch_dataforseo_data leaves in data
SourceKeys(name, fails) ==
    IF name \in fails THEN {name \o "_error"} ELSE {name}

\* the backlinks try block holds two calls: data["backlinks"] is already set when
\* get_backlinks_referring_domains raises
BacklinkKeys(fails) ==
    IF "backlinks" \in fails THEN {"backlinks_error"}
    ELSE IF "referring_domains" \in fails THEN {"backlinks", "backlinks_error"}
    ELSE {"backlinks", "referring_domains"}

\* _fetch_dataforseo_data, with the calls in fails raising: the data returned and the
\* exception that leaves the function
FetchDataForSEOUncaught(fails) ==
    IF "crawl" \in fails
    THEN [data |-> {}, exc |-> "source"]
    ELSE [data |-> SourceKeys("crawl", fails) \cup SourceKeys("competitors", fails)
                     \cup BacklinkKeys(fails) \cup SourceKeys("keywords", fails)
                     \cup SourceKeys("domain_metrics", fails),
          exc  |-> "none"]

FetchDataForSEO(fails) ==
    [data |-> SourceKeys("crawl", fails) \cup SourceKeys("competitors", fails)
                \cup BacklinkKeys(fails) \cup SourceKeys("keywords", fails)
                \cup SourceKeys("domain_metrics", fails),
     exc  |-> "none"]

\* the call numbers tried as the raising call of the GA4 and GSC fetches (0: none)
Ga4FailAt == {0, 1, 2}
GscFailAt == {0, 1, 2, 3}

Ga4Keys == <<"pages", "landing_pages", "devices", "countries", "traffic_sources">>
GscKeys == <<"pages", "queries", "countries", "devices">>
NoData  == {"None"}

\* _fetch_ga4_data when call number k raises (0: none does): one try block, so the
\* keys of the calls before k stay and "error" is added
FetchGA4(k) ==
    IF k = 0 THEN {Ga4Keys[i] : i \in 1..5}
    ELSE {Ga4Keys[i] : i \in 1..(k - 1)} \cup {"error"}

\* _fetch_gsc_data when call number k raises (0: none; 1 is normalize_site_url)
FetchGSC(k) ==
    IF k = 0 THEN {GscKeys[i] : i \in 1..4}
    ELSE {GscKeys[i] : i \in 1..(k - 2)} \cup {"error"}

\* _analyze_data: the sections of insights["summary"]
AnalyzeData(crawl_data, ga4_data, gsc_data) ==
    (crawl_data \cap {"crawl", "competitors", "backlinks", "keywords"})
        \cup (IF ga4_data # NoData /\ "pages" \in ga4_data THEN {"ga4"} ELSE {})
        \cup (IF gsc_data # NoData /\ "pages" \in gsc_data THEN {"gsc"} ELSE {})

\* run_audit as it would be if the record were first written with the results
CreateAuditRecordLater(T, n, domain) == T

\* _create_audit_record: INSERT INTO seo_audits (domain, status, started_at)
CreateAuditRecord(T, n, domain) ==
    T \cup {[id |-> n + 1, domain |-> domain, status |-> "running",
             error_message |-> "NULL", completed_at |-> "NULL",
             crawl_data |-> "NULL", insights |-> "NULL"]}

\* run_audit as it would be if the results were returned to the caller only
SaveAuditResultsNowhere(T, id) == T

\* _save_audit_results: UPDATE seo_audits SET crawl_data, ga4_data, gsc_data, insights
SaveAuditResults(T, id) ==
    {IF a.id = id THEN [a EXCEPT !.crawl_data = "JSON", !.insights = "JSON"] ELSE a :
        a \in T}

\* _update_audit_status: UPDATE seo_audits SET status, [error_message,] completed_at
UpdateAuditStatusEveryRow(T, id, status, error) ==
    {IF status = "completed"
     THEN [a EXCEPT !.status = status, !.completed_at = "now"]
     ELSE [a EXCEPT !.status = status, !.error_message = error, !.completed_at = "now"] :
        a \in T}

UpdateAuditStatus(T, id, status, error) ==
    {IF a.id # id THEN a
     ELSE IF status = "completed"
     THEN [a EXCEPT !.status = status, !.completed_at = "now"]
     ELSE [a EXCEPT !.status = status, !.error_message = error, !.completed_at = "now"] :
        a \in T}

\* run_audit's locals; exc is the exception caught by "except Exception as e",
\* raised the exception that left run_audit
RunStart(domain, ga4, gsc) ==
    [pc |-> "fetch", domain |-> domain, ga4 |-> ga4, gsc |-> gsc, audit_id |-> 0,
     crawl_data |-> NoData, ga4_data |-> NoData, gsc_data |-> NoData,
     insights |-> NoData, exc |-> "none", raised |-> "none", result |-> "none"]

\* run_audit is called: line 53, _create_audit_record, outside the try block
AuditCreate ==
    /\ run.pc \in {"idle", "returned", "raised"}
    /\ seq.seo_audits < MaxAudits
    /\ \E domain \in Domains, ga4 \in BOOLEAN, gsc \in BOOLEAN :
          IF storeUp
          THEN /\ audits' = CreateAuditRecord(audits, seq.seo_audits, domain)
               /\ seq' = [seq EXCEPT !.seo_audits = @ + 1]
               /\ run' = [RunStart(domain, ga4, gsc) EXCEPT !.audit_id = seq.seo_audits + 1]
          ELSE /\ run' = [RunStart(domain, ga4, gsc) EXCEPT !.pc = "raised",
                             !.raised = "store: create"]
               /\ UNCHANGED <<audits, seq>>
    /\ UNCHANGED <<storeUp, duda, wh2, products, now, sites, forms, orders, log,
                   webhooks, fetch, wh, query>>

\* lines 57-67: the three fetches; ga4 stands for "self.ga4 and ga4_property_id"
AuditFetch ==
    /\ run.pc = "fetch"
    /\ \E fails \in SUBSET DfsCalls, k4 \in Ga4FailAt, kc \in GscFailAt :
          LET r == FetchDataForSEO(fails)
          IN  IF r.exc # "none"
              THEN run' = [run EXCEPT !.pc = "except", !.exc = r.exc]
              ELSE run' = [run EXCEPT !.pc = "analyze", !.crawl_data = r.data,
                             !.ga4_data = IF run.ga4 THEN FetchGA4(k4) ELSE NoData,
                             !.gsc_data = IF run.gsc THEN FetchGSC(kc) ELSE NoData]
    /\ UNCHANGED <<storeUp, duda, wh2, products, now, sites, forms, orders, seq, log,
                   webhooks, fetch, wh, query, audits>>

\* line 70: _analyze_data
AuditAnalyze ==
    /\ run.pc = "analyze"
    /\ run' = [run EXCEPT !.pc = "save",
                 !.insights = AnalyzeData(run.crawl_data, run.ga4_data, run.gsc_data)]
    /\ UNCHANGED <<storeUp, duda, wh2, products, now, sites, forms, orders, seq, log,
                   webhooks, fetch, wh, query, audits>>

\* line 73: _save_audit_results
AuditSave ==
    /\ run.pc = "save"
    /\ IF storeUp
       THEN /\ audits' = SaveAuditResults(audits, run.audit_id)
            /\ run' = [run EXCEPT !.pc = "finish"]
       ELSE /\ run' = [run EXCEPT !.pc = "except", !.exc = "store: save"]
            /\ UNCHANGED audits
    /\ UNCHANGED <<storeUp, duda, wh2, products, now, sites, forms, orders, seq, log,
                   webhooks, fetch, wh, query>>

\* lines 76-84: _update_audit_status(audit_id, "completed") and the return
AuditComplete ==
    /\ run.pc = "finish"
    /\ IF storeUp
       THEN /\ audits' = UpdateAuditStatus(audits, run.audit_id, "completed", "NULL")
            /\ run' = [run EXCEPT !.pc = "returned", !.result = "completed"]
       ELSE /\ run' = [run EXCEPT !.pc = "except", !.exc = "store: status"]
            /\ UNCHANGED audits
    /\ UNCHANGED <<storeUp, duda, wh2, products, now, sites, forms, orders, seq, log,
                   webhooks, fetch, wh, query>>

\* lines 86-88: _update_audit_status(audit_id, "failed", str(e)), then raise; when the
\* update raises, its exception is the one that leaves run_audit
AuditExcept ==
    /\ run.pc = "except"
    /\ IF storeUp
       THEN /\ audits' = UpdateAuditStatus(audits, run.audit_id, "failed", run.exc)
            /\ run' = [run EXCEPT !.pc = "raised", !.raised = run.exc]
       ELSE /\ run' = [run EXCEPT !.pc = "raised", !.raised = "store: status failed"]
            /\ UNCHANGED audits
    /\ UNCHANGED <<storeUp, duda, wh2, products, now, sites, forms, orders, seq, log,
                   webhooks, fetch, wh, query>>

\* the store stops answering (file locked or gone, connection unusable)
StoreFails ==
    /\ storeUp
    /\ storeUp' = FALSE
    /\ UNCHANGED <<duda, wh2, products, now, sites, forms, orders, seq, log,
                   webhooks, fetch, wh, query, audits, run>>

\* the store answers again
StoreRecovers ==
    /\ ~storeUp
    /\ storeUp' = TRUE
    /\ UNCHANGED <<duda, wh2, products, now, sites, forms, orders, seq, log,
                   webhooks, fetch, wh, query, audits, run>>

InitAudit ==
    /\ storeUp = TRUE
    /\ duda = [sites |-> {}, dates |-> {}]
    /\ sites = {}
    /\ forms = {}
    /\ orders = {}
    /\ seq = SeqZero
    /\ log = <<>>
    /\ webhooks = [e \in EventTypes |-> ""]
    /\ fetch = FetchIdle
    /\ wh = WhIdle
    /\ wh2 = WhIdle
    /\ products = {}
    /\ now = 0
    /\ query = QueryNone
    /\ audits = {}
    /\ run = RunIdle

NextAudit ==
    \/ AuditCreate
    \/ AuditFetch
    \/ AuditAnalyze
    \/ AuditSave
    \/ AuditComplete
    \/ AuditExcept
    \/ StoreFails
    \/ StoreRecovers

SpecAudit == InitAudit /\ [][NextAudit]_vars
----------------------------------------------------------------------------
(* One ingestion cycle on given provider content: duda.forms, duda.products  *)
(* and duda.orders are the lists the provider returns for a site, record by  *)
(* record as the loops of DataFetcher take them.  A record may carry a null  *)
(* where the code expects a dict.  The store may stop answering and come     *)
(* back at any point; an insert on a store that raises returns False.        *)

\* a provider submission: "fields" and "data" both null, or a dict of fields
ProviderForms == [date : {1}, fields : {"dict", "null"}]
\* a provider product
ProviderProducts == [id : {"p1"}, price : Prices]
\* a provider order: "billing_address" null, or a dict
ProviderOrders == [id : OrderIds, date : {1}, billing_address : {"dict", "null"}]

\* the lists of at most MaxBatch records over R
Batches(R) == UNION {[1..n -> R] : n \in 0..MaxBatch}

\* _extract_email / _extract_name: "key in fields" raises TypeError on None
ExtractRaises(rec) == rec.fields = "null"

\* fetch_ecommerce_data line 174: order.get('billing_address', {}).get('full_name')
\* raises AttributeError when the provider sent "billing_address": null
OrderDataRaises(rec) == rec.billing_address = "null"

\* the move to the next site of "for site in sites", or the return of fetch_all_data
BatchNextSite(todo) ==
    IF todo = {} THEN fetch' = [fetch EXCEPT !.pc = "done", !.site = NoSite]
    ELSE \E s \in todo :
            fetch' = [fetch EXCEPT !.pc = "forms", !.todo = todo \ {s}, !.site = s,
                        !.batch = duda.forms]

\* fetch_all_data begins: fetch_all_sites gets the provider's list
BatchStart ==
    /\ fetch.pc = "idle"
    /\ fetch' = [pc |-> "sites", todo |-> duda.sites, site |-> NoSite, batch |-> <<>>,
                 read |-> {}, seen |-> {}]
    /\ UNCHANGED <<storeUp, duda, wh2, products, now, sites, forms, orders, seq, log,
                   webhooks, wh, query, audits, run>>

\* fetch_all_sites, one provider site: insert_site
BatchSite ==
    /\ fetch.pc = "sites"
    /\ \E s \in fetch.todo :
          /\ sites' = IF storeUp
                      THEN InsertSite(sites, [site_name |-> s, site_title |-> "Acme"], now)
                      ELSE sites
          /\ fetch' = [fetch EXCEPT !.todo = @ \ {s}]
    /\ UNCHANGED <<storeUp, duda, wh2, products, now, forms, orders, seq, log, webhooks,
                   wh, query, audits, run>>

\* fetch_all_sites returns; fetch_all_data reads get_all_sites and starts on the first
BatchSitesDone ==
    /\ fetch.pc = "sites"
    /\ fetch.todo = {}
    /\ \E next \in {[fetch EXCEPT !.read = GetAllSites]} :
          IF next.read = {} THEN fetch' = [next EXCEPT !.pc = "done"]
          ELSE \E s \in next.read :
                  fetch' = [next EXCEPT !.pc = "forms", !.todo = next.read \ {s},
                              !.site = s, !.batch = duda.forms]
    /\ UNCHANGED <<storeUp, duda, wh2, products, now, sites, forms, orders, seq, log,
                   webhooks, wh, query, audits, run>>

\* fetch_form_submissions, the next provider submission: build form_data, then
\* insert_form_submission
BatchForm ==
    /\ fetch.pc = "forms"
    /\ fetch.batch # <<>>
    /\ LET rec == Head(fetch.batch)
       IN  IF ExtractRaises(rec)
           THEN /\ fetch' = [fetch EXCEPT !.pc = "raised"]
                /\ UNCHANGED <<forms, seq>>
           ELSE /\ fetch' = [fetch EXCEPT !.batch = Tail(@),
                               !.seen = @ \cup {<<fetch.site, "form", Len(fetch.batch)>>}]
                /\ IF storeUp
                   THEN /\ forms' = InsertFormSubmission(forms, seq.form_submissions,
                                       [site_name |-> fetch.site,
                                        submission_date |-> rec.date])
                        /\ seq' = [seq EXCEPT !.form_submissions = @ + 1]
                   ELSE UNCHANGED <<forms, seq>>
    /\ UNCHANGED <<storeUp, duda, wh2, products, now, sites, orders, log, webhooks, wh,
                   query, audits, run>>

\* fetch_form_submissions returns; fetch_ecommerce_data asks get_store_enabled and
\* returns at once for a site without a store
BatchFormsDone ==
    /\ fetch.pc = "forms"
    /\ fetch.batch = <<>>
    /\ \E store_enabled \in BOOLEAN :
          IF store_enabled
          THEN fetch' = [fetch EXCEPT !.pc = "products", !.batch = duda.products]
          ELSE BatchNextSite(fetch.todo)
    /\ UNCHANGED <<storeUp, duda, wh2, products, now, sites, forms, orders, seq, log,
                   webhooks, wh, query, audits, run>>

\* fetch_ecommerce_data, the next provider product: insert_product
BatchProduct ==
    /\ fetch.pc = "products"
    /\ fetch.batch # <<>>
    /\ LET rec == Head(fetch.batch)
       IN  /\ fetch' = [fetch EXCEPT !.batch = Tail(@),
                          !.seen = @ \cup {<<fetch.site, "product", Len(fetch.batch)>>}]
           /\ IF storeUp
              THEN /\ products' = InsertProduct(products, seq.ecommerce_products,
                                     [site_name |-> fetch.site, product_id |-> rec.id,
                                      price |-> rec.price])
                   /\ seq' = [seq EXCEPT !.ecommerce_products = @ + 1]
              ELSE UNCHANGED <<products, seq>>
    /\ UNCHANGED <<storeUp, duda, wh2, now, sites, forms, orders, log, webhooks, wh,
                   query, audits, run>>

\* the product loop ends; list_orders
BatchProductsDone ==
    /\ fetch.pc = "products"
    /\ fetch.batch = <<>>
    /\ fetch' = [fetch EXCEPT !.pc = "orders", !.batch = duda.orders]
    /\ UNCHANGED <<storeUp, duda, wh2, products, now, sites, forms, orders, seq, log,
                   webhooks, wh, query, audits, run>>

\* fetch_ecommerce_data, the next provider order: build order_data, then
\* insert_ecommerce_order
BatchOrder ==
    /\ fetch.pc = "orders"
    /\ fetch.batch # <<>>
    /\ LET rec == Head(fetch.batch)
       IN  IF OrderDataRaises(rec)
           THEN /\ fetch' = [fetch EXCEPT !.pc = "raised"]
                /\ UNCHANGED <<orders, seq>>
           ELSE /\ fetch' = [fetch EXCEPT !.batch = Tail(@),
                               !.seen = @ \cup {<<fetch.site, "order", Len(fetch.batch)>>}]
                /\ IF storeUp
                   THEN /\ orders' = InsertEcommerceOrder(orders, seq.ecommerce_orders,
                                        [order_id |-> rec.id, site_name |-> fetch.site,
                                         order_date |-> rec.date])
                        /\ seq' = [seq EXCEPT !.ecommerce_orders = @ + 1]
                   ELSE UNCHANGED <<orders, seq>>
    /\ UNCHANGED <<storeUp, duda, wh2, products, now, sites, forms, log, webhooks, wh,
                   query, audits, run>>

\* fetch_ecommerce_data returns; the next site, or fetch_all_data returns
BatchOrdersDone ==
    /\ fetch.pc = "orders"
    /\ fetch.batch = <<>>
    /\ BatchNextSite(fetch.todo)
    /\ UNCHANGED <<storeUp, duda, wh2, products, now, sites, forms, orders, seq, log,
                   webhooks, wh, query, audits, run>>

InitIngest ==
    /\ storeUp = TRUE
    /\ \E S \in SUBSET SiteNames, F \in Batches(ProviderForms),
          P \in Batches(ProviderProducts), O \in Batches(ProviderOrders) :
          /\ S # {}
          /\ duda = [sites |-> S, dates |-> {1}, forms |-> F, products |-> P,
                     orders |-> O]
    /\ sites = {}
    /\ forms = {}
    /\ orders = {}
    /\ products = {}
    /\ now = 0
    /\ seq = SeqZero
    /\ log = <<>>
    /\ webhooks = [e \in EventTypes |-> ""]
    /\ fetch = FetchIdle
    /\ wh = WhIdle
    /\ wh2 = WhIdle
    /\ query = QueryNone
    /\ audits = {}
    /\ run = RunIdle

NextIngest ==
    \/ BatchStart
    \/ BatchSite
    \/ BatchSitesDone
    \/ BatchForm
    \/ BatchFormsDone
    \/ BatchProduct
    \/ BatchProductsDone
    \/ BatchOrder
    \/ BatchOrdersDone
    \/ StoreFails
    \/ StoreRecovers

SpecIngest == InitIngest /\ [][NextIngest]_vars
----------------------------------------------------------------------------
(* The write operations of the store when the store fails inside them.  Each *)
(* runs cursor.execute and then conn.commit inside one try block whose       *)
(* handler returns False and does not roll back.  A failure before or in     *)
(* execute leaves the tables alone.  A failure of commit (the file is locked *)
(* by a reader of another process) leaves the statement applied in the open  *)
(* transaction of the one connection the DatabaseManager keeps: every later  *)
(* read of this connection sees it and the next commit that succeeds makes   *)
(* it durable.  The tables are what the reads of this connection return.     *)

\* where the store fails in a write operation, if it does
Faults == {"none", "execute", "commit"}

\* the table after a write operation: Tnew is the table with the statement applied
Written(fault, T, Tnew) == IF fault = "execute" THEN T ELSE Tnew

\* the tables a write operation may touch
Tables == [sites |-> sites, forms |-> forms, orders |-> orders, products |-> products,
           log |-> log]

\* the record of a call: the value returned is True when nothing raised
FaultCall(kind, fault) ==
    [kind |-> kind, fault |-> fault, result |-> (fault = "none"), before |-> Tables]

\* insert_site(site_data)
TryInsertSite ==
    /\ now < MaxCalls
    /\ \E d \in SiteInputs, fault \in Faults :
          /\ sites' = Written(fault, sites, InsertSite(sites, d, now))
          /\ query' = FaultCall("insert_site", fault)
    /\ now' = now + 1
    /\ UNCHANGED <<storeUp, duda, wh2, products, forms, orders, seq, log, webhooks, fetch,
                   wh, audits, run>>

\* insert_form_submission(submission_data)
TryInsertFormSubmission ==
    /\ now < MaxCalls
    /\ \E d \in FormInputs, fault \in Faults :
          /\ forms' = Written(fault, forms,
                              InsertFormSubmission(forms, seq.form_submissions, d))
          /\ seq' = IF fault = "execute" THEN seq
                    ELSE [seq EXCEPT !.form_submissions = @ + 1]
          /\ query' = FaultCall("insert_form_submission", fault)
    /\ now' = now + 1
    /\ UNCHANGED <<storeUp, duda, wh2, products, sites, orders, log, webhooks, fetch, wh,
                   audits, run>>

\* insert_ecommerce_order(order_data)
TryInsertEcommerceOrder ==
    /\ now < MaxCalls
    /\ \E d \in OrderInputs, fault \in Faults :
          /\ orders' = Written(fault, orders,
                               InsertEcommerceOrder(orders, seq.ecommerce_orders, d))
          /\ seq' = IF fault = "execute" THEN seq
                    ELSE [seq EXCEPT !.ecommerce_orders = @ + 1]
          /\ query' = FaultCall("insert_ecommerce_order", fault)
    /\ now' = now + 1
    /\ UNCHANGED <<storeUp, duda, wh2, products, sites, forms, log, webhooks, fetch, wh,
                   audits, run>>

\* insert_product(product_data)
TryInsertProduct ==
    /\ now < MaxCalls
    /\ \E d \in ProductInputs, fault \in Faults :
          /\ products' = Written(fault, products,
                                 InsertProduct(products, seq.ecommerce_products, d))
          /\ seq' = IF fault = "execute" THEN seq
                    ELSE [seq EXCEPT !.ecommerce_products = @ + 1]
          /\ query' = FaultCall("insert_product", fault)
    /\ now' = now + 1
    /\ UNCHANGED <<storeUp, duda, wh2, sites, forms, orders, log, webhooks, fetch, wh,
                   audits, run>>

\* mark_webhook_sent('form_submissions', record_id)
TryMarkWebhookSent ==
    /\ now < MaxCalls
    /\ \E id \in 1..MaxCalls, fault \in Faults :
          /\ forms' = Written(fault, forms, MarkWebhookSent(forms, id))
          /\ query' = FaultCall("mark_webhook_sent", fault)
    /\ now' = now + 1
    /\ UNCHANGED <<storeUp, duda, wh2, products, sites, orders, seq, log, webhooks, fetch,
                   wh, audits, run>>

\* log_webhook(event_type, webhook_url, payload, response_code, response_body, success)
TryLogWebhook ==
    /\ now < MaxCalls
    /\ \E e \in EventTypes, resp \in Responses, fault \in Faults :
          /\ log' = Written(fault, log,
                            Append(log, WebhookLogEntry(e, "https://hook", resp)))
          /\ query' = FaultCall("log_webhook", fault)
    /\ now' = now + 1
    /\ UNCHANGED <<storeUp, duda, wh2, products, sites, forms, orders, seq, webhooks,
                   fetch, wh, audits, run>>

NextFault ==
    \/ TryInsertSite
    \/ TryInsertFormSubmission
    \/ TryInsertEcommerceOrder
    \/ TryInsertProduct
    \/ TryMarkWebhookSent
    \/ TryLogWebhook

SpecFault == InitStore /\ [][NextFault]_vars
----------------------------------------------------------------------------
(* Field extraction from one provider submission.  A dict is a function     *)
(* whose domain is the set of its keys; a key may be present with the value *)
(* null.  A submission is its "fields" dict, its "data" dict (an absent key *)
(* reads as the empty dict, as in .get(key, {})) and its top-level keys.    *)

Emails == {"a@x", "b@x"}

\* _extract_email line 232: the candidate keys looked up in the fields
EmailFieldKeys == <<"email", "Email", "e-mail", "E-mail", "EMAIL">>
\* _extract_email line 237: the candidate keys looked up at top level
EmailTopKeys == <<"email", "submitter_email", "user_email">>

\* the dicts over the keys K with a null or an address under each key present
Dicts(K) == UNION {[P -> {Null} \cup Emails] : P \in SUBSET K}

\* the submissions a provider may send
Submissions ==
    [fields : Dicts({"email", "Email", "EMAIL"}), data : Dicts({"email"}),
     top : Dicts({"email", "user_email"})]

\* Python "a or b" on dicts: the empty dict is false
DictOr(a, b) == IF DOMAIN a # {} THEN a ELSE b

\* "for key in keys: if key in d: return d[key]": the keys of the list from
\* position i on; the pair <<found, value>>
RECURSIVE FirstPresent(_, _, _)
FirstPresent(keys, i, d) ==
    IF i > Len(keys) THEN <<FALSE, Null>>
    ELSE IF keys[i] \in DOMAIN d THEN <<TRUE, d[keys[i]]>>
    ELSE FirstPresent(keys, i + 1, d)

\* _extract_email(submission)
ExtractEmail(submission) ==
    LET fields == DictOr(submission.fields, submission.data)
        inFields == FirstPresent(EmailFieldKeys, 1, fields)
        inTop == FirstPresent(EmailTopKeys, 1, submission.top)
    IN  IF inFields[1] THEN inFields[2]
        ELSE IF inTop[1] THEN inTop[2]
        ELSE Null

\* a caller holds a submission and extracts its email
CallExtractEmail ==
    /\ query.kind = "submission"
    /\ query' = [kind |-> "extract_email", submission |-> query.submission,
                 result |-> ExtractEmail(query.submission)]
    /\ UNCHANGED <<storeUp, duda, wh2, products, now, sites, forms, orders, seq, log,
                   webhooks, fetch, wh, audits, run>>

InitExtract ==
    /\ storeUp = TRUE
    /\ duda = [sites |-> SiteNames, dates |-> Dates]
    /\ sites = {}
    /\ forms = {}
    /\ orders = {}
    /\ products = {}
    /\ now = 0
    /\ seq = SeqZero
    /\ log = <<>>
    /\ webhooks = [e \in EventTypes |-> ""]
    /\ fetch = FetchIdle
    /\ wh = WhIdle
    /\ wh2 = WhIdle
    /\ \E s \in Submissions : query = [kind |-> "submission", submission |-> s]
    /\ audits = {}
    /\ run = RunIdle

NextExtract == CallExtractEmail

SpecExtract == InitExtract /\ [][NextExtract]_vars
----------------------------------------------------------------------------
(* One ingestion cycle on provider records that may lack their identifying  *)
(* key: site.get('site_name'), product.get('id') or product.get(            *)
(* 'product_id'), order.get('id') or order.get('order_id') are then None,   *)
(* and the record goes to the store with a NULL key.  The steps are those   *)
(* of the ingestion cycle above.                                            *)

InitKeys ==
    /\ storeUp = TRUE
    /\ \E S \in SUBSET {"acme", Null},
          F \in Batches([date : {1}, fields : {"dict"}]),
          P \in Batches([id : {"p1", Null}, price : {10}]),
          O \in Batches([id : {"o1", Null}, date : {1}, billing_address : {"dict"}]) :
          /\ S # {}
          /\ duda = [sites |-> S, dates |-> {1}, forms |-> F, products |-> P,
                     orders |-> O]
    /\ sites = {}
    /\ forms = {}
    /\ orders = {}
    /\ products = {}
    /\ now = 0
    /\ seq = SeqZero
    /\ log = <<>>
    /\ webhooks = [e \in EventTypes |-> ""]
    /\ fetch = FetchIdle
    /\ wh = WhIdle
    /\ wh2 = WhIdle
    /\ query = QueryNone
    /\ audits = {}
    /\ run = RunIdle

SpecKeys == InitKeys /\ [][NextIngest]_vars
----------------------------------------------------------------------------
(* The three cycles against remote peers that may accept the connection and *)
(* never answer.  A request made with a timeout ends by itself; a request   *)
(* made without one (requests' default, timeout=None) waits for ever.  The  *)
(* provider here lists one site and returns empty record lists, so that the *)
(* only store write of ingestion is the site upsert.  A cycle is started    *)
(* when no other is running: whether a cycle ends depends on its own        *)
(* requests only.                                                           *)

\* the timeout argument, in seconds, of the request each client makes (0: none)
\*   DudaAPIClient._make_request: self.session.request(method, url, **kwargs), and
\*     no caller passes timeout
\*   WebhookManager.send_webhook: timeout=self.timeout, 10
\*   DataForSEOClient._post: timeout=120
RequestTimeout ==
    [duda |-> 0, webhook |-> 10, dataforseo |-> 120]

Peers == {"answers", "silent"}

\* how a request of the client ends with that peer
Outbound(client, peer) ==
    IF peer = "answers" THEN "response"
    ELSE IF RequestTimeout[client] > 0 THEN "timeout"
    ELSE "blocked"

\* the provider requests fetch_all_data makes for one site, in call order
SiteRequests == <<"get_form_submissions", "get_store_enabled", "list_products",
                  "list_orders", "get_site_stats">>

\* the move of fetch_all_data to the next of the sites S, or its return
PeerNextSite(S) ==
    IF S = {} THEN fetch' = [pc |-> "done", todo |-> {}, site |-> NoSite, call |-> 0]
    ELSE \E s \in S : fetch' = [pc |-> "site", todo |-> S \ {s}, site |-> s, call |-> 1]

\* no cycle is running
Quiet ==
    /\ fetch.pc \in {"idle", "done"}
    /\ wh.pc = "idle"
    /\ run.pc \in {"idle", "returned", "raised"}

\* fetch_all_data is called
PeerFetchStart ==
    /\ Quiet
    /\ fetch.pc = "idle"
    /\ fetch' = [pc |-> "list_sites", todo |-> {}, site |-> NoSite, call |-> 0]
    /\ UNCHANGED <<storeUp, duda, wh2, products, now, sites, forms, orders, seq, log,
                   webhooks, wh, query, audits, run>>

\* fetch_all_sites: list_sites, insert_site for the site listed, then get_all_sites
PeerFetchSites ==
    /\ fetch.pc = "list_sites"
    /\ \E peer \in Peers :
          LET out == Outbound("duda", peer)
              stored == IF out = "response"
                        THEN InsertSite(sites, [site_name |-> "acme",
                                                site_title |-> "Acme"], now)
                        ELSE sites
          IN  IF out = "blocked"
              THEN /\ fetch' = [fetch EXCEPT !.pc = "blocked"]
                   /\ UNCHANGED sites
              ELSE /\ sites' = stored
                   /\ PeerNextSite({r.site_name : r \in stored})
    /\ UNCHANGED <<storeUp, duda, wh2, products, now, forms, orders, seq, log, webhooks,
                   wh, query, audits, run>>

\* the next provider request for the current site; fetch_ecommerce_data returns
\* after get_store_enabled when the site has no store
PeerSiteRequest ==
    /\ fetch.pc = "site"
    /\ \E peer \in Peers, store_enabled \in BOOLEAN :
          LET out == Outbound("duda", peer)
          IN  IF out = "blocked" THEN fetch' = [fetch EXCEPT !.pc = "blocked"]
              ELSE IF fetch.call = Len(SiteRequests) THEN PeerNextSite(fetch.todo)
              ELSE IF /\ SiteRequests[fetch.call] = "get_store_enabled"
                      /\ ~(out = "response" /\ store_enabled)
                   THEN fetch' = [fetch EXCEPT !.call = Len(SiteRequests)]
              ELSE fetch' = [fetch EXCEPT !.call = @ + 1]
    /\ UNCHANGED <<storeUp, duda, wh2, products, now, sites, forms, orders, seq, log,
                   webhooks, wh, query, audits, run>>

\* process_all_pending_webhooks is called, with room in the log for the cycle
PeerWhStart ==
    /\ Quiet
    /\ Len(log) + Cardinality(forms) + Cardinality(orders) <= MaxLog
    /\ WhStart

\* one send_webhook call of the loop: requests.post with the timeout
PeerWhSend ==
    /\ wh.pc \in {"forms", "orders"}
    /\ wh.step = "send"
    /\ wh.pending # <<>>
    /\ \E peer \in Peers, answer \in Responses :
          LET rec   == Head(wh.pending)
              event == IF wh.pc = "forms" THEN "new_form_submission"
                       ELSE "new_ecommerce_order"
              url   == webhooks[event]
              out   == Outbound("webhook", peer)
              resp  == IF url = "" THEN NoResponse
                       ELSE IF out = "response" THEN answer
                       ELSE [kind |-> "timeout", code |-> 0]
          IN  IF url # "" /\ out = "blocked"
              THEN /\ wh' = [wh EXCEPT !.pc = "blocked"]
                   /\ UNCHANGED log
              ELSE /\ log' = IF url = "" THEN log
                             ELSE LogWebhook(log, WebhookLogEntry(event, url, resp))
                   /\ wh' = [wh EXCEPT !.step = "mark", !.sent = SendWebhook(url, resp),
                               !.resp = resp,
                               !.attempts = Append(@, [rec |-> rec,
                                                      ok |-> SendWebhook(url, resp)])]
    /\ UNCHANGED <<storeUp, duda, wh2, products, now, sites, forms, orders, seq,
                   webhooks, fetch, query, audits, run>>

\* lines 57-67 of run_audit: every DataForSEO call goes through _post; a call whose
\* peer is silent raises after the timeout and is caught by its try block
PeerAuditFetch ==
    /\ run.pc = "fetch"
    /\ \E silent \in SUBSET DfsCalls :
          IF silent # {} /\ Outbound("dataforseo", "silent") = "blocked"
          THEN run' = [run EXCEPT !.pc = "blocked"]
          ELSE run' = [run EXCEPT !.pc = "analyze",
                         !.crawl_data = FetchDataForSEO(silent).data]
    /\ UNCHANGED <<storeUp, duda, wh2, products, now, sites, forms, orders, seq, log,
                   webhooks, fetch, wh, query, audits>>

\* run_audit is called, once, by an SEOAuditor without GA4 and GSC clients: line 53,
\* _create_audit_record
PeerAuditCreate ==
    /\ Quiet
    /\ audits = {}
    /\ \E domain \in Domains :
          /\ audits' = CreateAuditRecord(audits, seq.seo_audits, domain)
          /\ seq' = [seq EXCEPT !.seo_audits = @ + 1]
          /\ run' = [RunStart(domain, FALSE, FALSE) EXCEPT !.audit_id = seq.seo_audits + 1]
    /\ UNCHANGED <<storeUp, duda, wh2, products, now, sites, forms, orders, log,
                   webhooks, fetch, wh, query>>

InitPeers ==
    /\ storeUp = TRUE
    /\ duda = [sites |-> {"acme"}, dates |-> {1}]
    /\ sites = {}
    /\ forms = InsertFormSubmission({}, 0, [site_name |-> "acme", submission_date |-> 1])
    /\ orders = InsertEcommerceOrder({}, 0, [order_id |-> "o1", site_name |-> "acme",
                                           order_date |-> 1])
    /\ products = {}
    /\ now = 0
    /\ seq = [SeqZero EXCEPT !.form_submissions = 1, !.ecommerce_orders = 1]
    /\ log = <<>>
    /\ webhooks \in [EventTypes -> Urls]
    /\ fetch = FetchIdle
    /\ wh = WhIdle
    /\ wh2 = WhIdle
    /\ query = QueryNone
    /\ audits = {}
    /\ run = RunIdle

\* the steps of a running ingestion cycle, notification cycle and audit (on a store
\* that answers nothing raises inside run_audit's try block: every source failure
\* is caught in the fetch phase)
FetchRuns == PeerFetchSites \/ PeerSiteRequest
WhRuns    == PeerWhSend \/ WhMark \/ WhFormsDone \/ WhOrdersDone
AuditRuns == PeerAuditFetch \/ AuditAnalyze \/ AuditSave \/ AuditComplete

NextPeers ==
    \/ PeerFetchStart
    \/ PeerFetchSites
    \/ PeerSiteRequest
    \/ PeerWhStart
    \/ PeerWhSend
    \/ WhMark
    \/ WhFormsDone
    \/ WhOrdersDone
    \/ PeerAuditCreate
    \/ PeerAuditFetch
    \/ AuditAnalyze
    \/ AuditSave
    \/ AuditComplete

\* each cycle runs in a thread of its own (DataFetchThread, WebhookThread, the
\* caller of run_audit): a thread that can take a step takes it
SpecPeers ==
    /\ InitPeers
    /\ [][NextPeers]_vars
    /\ WF_vars(FetchRuns)
    /\ WF_vars(WhRuns)
    /\ WF_vars(AuditRuns)
----------------------------------------------------------------------------
(* Two ingestion cycles on two provider snapshots, in both orders.  A       *)
(* snapshot is what the provider returns during one cycle for the site      *)
(* "acme": its title and its lists of submissions, products and orders.     *)
(* IngestCycle is fetch_all_data on a store that answers, as a function of  *)
(* the store before it.                                                     *)

\* the lists of at most one record over R
AtMostOne(R) == {<<>>} \cup {<<r>> : r \in R}

Snapshots ==
    [title : AllTitles, forms : AtMostOne([date : Dates]),
     products : AtMostOne([id : {"p1"}, price : Prices]),
     orders : AtMostOne([id : {"o1"}, date : Dates])]

EmptyStore == [sites |-> {}, forms |-> {}, orders |-> {}, products |-> {}, seq |-> SeqZero]

\* fetch_form_submissions: insert_form_submission for each submission of the list
RECURSIVE IngestForms(_, _)
IngestForms(store, recs) ==
    IF recs = <<>> THEN store
    ELSE IngestForms(
            [store EXCEPT
               !.forms = InsertFormSubmission(@, store.seq.form_submissions,
                            [site_name |-> "acme", submission_date |-> Head(recs).date]),
               !.seq.form_submissions = @ + 1],
            Tail(recs))

\* fetch_ecommerce_data: insert_product for each product of the list
RECURSIVE IngestProducts(_, _)
IngestProducts(store, recs) ==
    IF recs = <<>> THEN store
    ELSE IngestProducts(
            [store EXCEPT
               !.products = InsertProduct(@, store.seq.ecommerce_products,
                               [site_name |-> "acme", product_id |-> Head(recs).id,
                                price |-> Head(recs).price]),
               !.seq.ecommerce_products = @ + 1],
            Tail(recs))

\* fetch_ecommerce_data: insert_ecommerce_order for each order of the list
RECURSIVE IngestOrders(_, _)
IngestOrders(store, recs) ==
    IF recs = <<>> THEN store
    ELSE IngestOrders(
            [store EXCEPT
               !.orders = InsertEcommerceOrder(@, store.seq.ecommerce_orders,
                             [order_id |-> Head(recs).id, site_name |-> "acme",
                              order_date |-> Head(recs).date]),
               !.seq.ecommerce_orders = @ + 1],
            Tail(recs))

\* fetch_all_data at time t: the site upsert, then submissions, products and orders
IngestCycle(store, snap, t) ==
    LET withSite == [store EXCEPT
                       !.sites = InsertSite(@, [site_name |-> "acme",
                                                site_title |-> snap.title], t)]
    IN  IngestOrders(IngestProducts(IngestForms(withSite, snap.forms), snap.products),
                     snap.orders)

\* the two cycles are run on the empty store: the tables take the outcome of the
\* order A, B; query keeps the outcome of the order B, A
IngestBothOrders ==
    /\ query.kind = "snapshots"
    /\ LET ab == IngestCycle(IngestCycle(EmptyStore, query.A, 1), query.B, 2)
           ba == IngestCycle(IngestCycle(EmptyStore, query.B, 1), query.A, 2)
       IN  /\ sites' = ab.sites
           /\ forms' = ab.forms
           /\ orders' = ab.orders
           /\ products' = ab.products
           /\ seq' = ab.seq
           /\ query' = [kind |-> "other_order", A |-> query.A, B |-> query.B,
                        store |-> ba]
    /\ UNCHANGED <<storeUp, duda, wh2, now, log, webhooks, fetch, wh, audits, run>>

InitCommute ==
    /\ storeUp = TRUE
    /\ duda = [sites |-> {"acme"}, dates |-> Dates]
    /\ sites = {}
    /\ forms = {}
    /\ orders = {}
    /\ products = {}
    /\ now = 0
    /\ seq = SeqZero
    /\ log = <<>>
    /\ webhooks = [e \in EventTypes |-> ""]
    /\ fetch = FetchIdle
    /\ wh = WhIdle
    /\ wh2 = WhIdle
    /\ \E A \in Snapshots, B \in Snapshots : query = [kind |-> "snapshots", A |-> A, B |-> B]
    /\ audits = {}
    /\ run = RunIdle

NextCommute == IngestBothOrders

SpecCommute == InitCommute /\ [][NextCommute]_vars
----------------------------------------------------------------------------
(* Reads of the audit records (get_audit_results, list_audits) by a caller  *)
(* outside run_audit, on every content the audits can leave in seo_audits,  *)
(* the database on which no audit was ever started included.                *)

\* the seo_audits table is created by _create_audit_record (CREATE TABLE IF NOT
\* EXISTS, lines 96-109) and by nothing else: _initialize_database does not know
\* it.  It exists once an audit was started.
SeoAuditsExists == seq.seo_audits > 0

\* how an audit started earlier stands
AuditOutcomes == {"running", "completed", "failed"}

\* the row of audit id in T after the audit went that way
AuditLeft(T, id, outcome) ==
    IF outcome = "completed"
    THEN UpdateAuditStatus(SaveAuditResults(T, id), id, "completed", "NULL")
    ELSE IF outcome = "failed" THEN UpdateAuditStatus(T, id, "failed", "source")
    ELSE T

\* the seo_audits tables after n audits
RECURSIVE AuditTables(_)
AuditTables(n) ==
    IF n = 0 THEN {{}}
    ELSE {AuditLeft(CreateAuditRecord(T, n - 1, domain), n, outcome) :
             T \in AuditTables(n - 1), domain \in Domains, outcome \in AuditOutcomes}

\* get_audit_results(audit_id): SELECT * FROM seo_audits WHERE id = ?, fetchone;
\* the statement raises OperationalError (no such table) and nothing catches it
GetAuditResults(audit_id) ==
    IF ~SeoAuditsExists THEN [raised |-> TRUE, rows |-> <<>>]
    ELSE IF audit_id \in Ids(audits)
    THEN [raised |-> FALSE, rows |-> <<Row(audits, audit_id)>>]
    ELSE [raised |-> FALSE, rows |-> <<>>]

\* list_audits(domain): the possible results.  "if domain:" filters; ORDER BY
\* started_at DESC, and started_at, the clock at insertion, grows with the id
ListAudits(domain) ==
    IF ~SeoAuditsExists THEN {[raised |-> TRUE, rows |-> <<>>]}
    ELSE {[raised |-> FALSE, rows |-> q] :
             q \in OrderedDesc({a \in audits : domain # Null => a.domain = domain}, "id")}

\* get_audit_results is called with any id
QueryAudit ==
    /\ query.kind = "none"
    /\ \E audit_id \in 1..(MaxAudits + 1) :
          query' = [kind |-> "get_audit_results", arg |-> audit_id,
                    result |-> GetAuditResults(audit_id)]
    /\ UNCHANGED <<storeUp, duda, wh2, products, now, sites, forms, orders, seq, log,
                   webhooks, fetch, wh, audits, run>>

\* list_audits is called, with a domain or with None
QueryAudits ==
    /\ query.kind = "none"
    /\ \E domain \in Domains \cup {Null} : \E r \in ListAudits(domain) :
          query' = [kind |-> "list_audits", arg |-> domain, result |-> r]
    /\ UNCHANGED <<storeUp, duda, wh2, products, now, sites, forms, orders, seq, log,
                   webhooks, fetch, wh, audits, run>>

InitAuditQuery ==
    /\ storeUp = TRUE
    /\ duda = [sites |-> {}, dates |-> {}]
    /\ sites = {}
    /\ forms = {}
    /\ orders = {}
    /\ products = {}
    /\ now = 0
    /\ \E n \in 0..MaxAudits :
          /\ seq = [SeqZero EXCEPT !.seo_audits = n]
          /\ audits \in AuditTables(n)
    /\ log = <<>>
    /\ webhooks = [e \in EventTypes |-> ""]
    /\ fetch = FetchIdle
    /\ wh = WhIdle
    /\ wh2 = WhIdle
    /\ query = QueryNone
    /\ run = RunIdle

NextAuditQuery ==
    \/ QueryAudit
    \/ QueryAudits

SpecAuditQuery == InitAuditQuery /\ [][NextAuditQuery]_vars
----------------------------------------------------------------------------
(* The response body kept in webhook_log.  A text is modelled by its length: *)
(* response.text is what the peer sent, str(e) is the message of the         *)
(* exception raised by requests.post (for a connection error it quotes the   *)
(* host and the path of the destination) or by the JSON encoding of the      *)
(* payload.                                                                  *)

\* lengths of the texts a peer or an exception can produce
TextLengths == {0, 15, 499, 500, 501, 1200}

\* send_webhook line 73: the slice bound of response.text[:500]
BodyLimit == 500

\* len("Request timeout"), line 91
RequestTimeoutText == 15

\* text[:500]
Slice500(n) == IF n > BodyLimit THEN BodyLimit ELSE n

\* send_webhook: the response_body argument of log_webhook on each path
ResponseBody(resp, text) ==
    CASE resp.kind = "http"    -> Slice500(text)
      [] resp.kind = "timeout" -> RequestTimeoutText
      [] OTHER                 -> text

\* send_webhook: the webhook_log row of one attempt, response_body included
WebhookLogRow(event, url, resp, text) ==
    [event_type |-> event, webhook_url |-> url,
     response_code |-> IF resp.kind = "http" THEN resp.code ELSE 0,
     response_body |-> ResponseBody(resp, text),
     success |-> IF SendWebhook(url, resp) THEN 1 ELSE 0]

\* send_webhook(event_type, payload), the peer's text or the exception's message drawn
CallSendWebhookText ==
    /\ \E event \in EventTypes :
          LET url == webhooks[event]
          IN  IF url = ""
              THEN /\ query' = [kind |-> "send_webhook", event |-> event,
                                request |-> FALSE, resp |-> NoResponse, text |-> 0,
                                result |-> SendWebhook(url, NoResponse)]
                   /\ log' = log
              ELSE \E resp \in Responses, text \in TextLengths :
                   /\ Len(log) < MaxLog
                   /\ log' = LogWebhook(log, WebhookLogRow(event, url, resp, text))
                   /\ query' = [kind |-> "send_webhook", event |-> event,
                                request |-> TRUE, resp |-> resp, text |-> text,
                                result |-> SendWebhook(url, resp)]
    /\ UNCHANGED <<storeUp, duda, wh2, products, now, sites, forms, orders, seq,
                   webhooks, fetch, wh, audits, run>>

NextBody ==
    \/ CallSendWebhookText

SpecBody == InitSend /\ [][NextBody]_vars
----------------------------------------------------------------------------
(* Name extraction from one provider submission.  A value is None or a       *)
(* string, a string being the sequence of its characters, so that the        *)
(* f-string of line 258 is a concatenation.                                  *)

PyNone == [none |-> TRUE, text |-> <<>>]
Str(t) == [none |-> FALSE, text |-> t]

\* Python truth of a value: None and '' are false
Truthy(v) == ~v.none /\ v.text # <<>>

\* Python "a or b" on values
ValueOr(a, b) == IF Truthy(a) THEN a ELSE b

\* d.get(k)
DictGet(d, k) == IF k \in DOMAIN d THEN d[k] ELSE PyNone

\* _extract_name line 248: the candidate keys looked up in the fields
NameFieldKeys == <<"name", "Name", "full_name", "Full Name", "NAME">>
\* _extract_name line 262: the candidate keys looked up at top level
NameTopKeys == <<"name", "submitter_name", "user_name">>

\* the values a provider may put under a key of the fields
NameValues == {PyNone, Str(<<>>), Str(<<"A">>), Str(<<"B">>)}

\* the dicts over the keys K with one of the values V under each key present
ValueDicts(K, V) == UNION {[P -> V] : P \in SUBSET K}

\* the submissions a provider may send
NameSubmissions ==
    [fields : ValueDicts({"name", "first_name", "First Name", "last_name"}, NameValues),
     data : ValueDicts({"first_name"}, NameValues),
     top : ValueDicts({"name", "user_name"}, {PyNone, Str(<<"T">>)})]

\* _extract_name as it would be if the top-level keys were looked up before
\* first_name and last_name
ExtractNameTopFirst(submission) ==
    LET fields == DictOr(submission.fields, submission.data)
        inFields == FirstPresent(NameFieldKeys, 1, fields)
        inTop == FirstPresent(NameTopKeys, 1, submission.top)
        first == ValueOr(DictGet(fields, "first_name"), DictGet(fields, "First Name"))
        last == ValueOr(DictGet(fields, "last_name"), DictGet(fields, "Last Name"))
    IN  IF inFields[1] THEN inFields[2]
        ELSE IF inTop[1] THEN inTop[2]
        ELSE IF Truthy(first) /\ Truthy(last) THEN Str(first.text \o <<" ">> \o last.text)
        ELSE IF Truthy(first) THEN first
        ELSE PyNone

\* _extract_name(submission)
ExtractName(submission) ==
    LET fields == DictOr(submission.fields, submission.data)
        inFields == FirstPresent(NameFieldKeys, 1, fields)
        inTop == FirstPresent(NameTopKeys, 1, submission.top)
        first == ValueOr(DictGet(fields, "first_name"), DictGet(fields, "First Name"))
        last == ValueOr(DictGet(fields, "last_name"), DictGet(fields, "Last Name"))
    IN  IF inFields[1] THEN inFields[2]
        ELSE IF Truthy(first) /\ Truthy(last) THEN Str(first.text \o <<" ">> \o last.text)
        ELSE IF Truthy(first) THEN first
        ELSE IF inTop[1] THEN inTop[2]
        ELSE PyNone

\* a caller holds a submission and extracts its name, any number of times
CallExtractName ==
    /\ query.kind \in {"submission", "extract_name"}
    /\ query' = [kind |-> "extract_name", submission |-> query.submission,
                 result |-> ExtractName(query.submission)]
    /\ UNCHANGED <<storeUp, duda, wh2, products, now, sites, forms, orders, seq, log,
                   webhooks, fetch, wh, audits, run>>

InitName ==
    /\ storeUp = TRUE
    /\ duda = [sites |-> SiteNames, dates |-> Dates]
    /\ sites = {}
    /\ forms = {}
    /\ orders = {}
    /\ products = {}
    /\ now = 0
    /\ seq = SeqZero
    /\ log = <<>>
    /\ webhooks = [e \in EventTypes |-> ""]
    /\ fetch = FetchIdle
    /\ wh = WhIdle
    /\ wh2 = WhIdle
    /\ \E s \in NameSubmissions : query = [kind |-> "submission", submission |-> s]
    /\ audits = {}
    /\ run = RunIdle

NextName ==
    \/ CallExtractName

SpecName == InitName /\ [][NextName]_vars
----------------------------------------------------------------------------
(* Ingestion and notification cycles one after the other (the fetch button   *)
(* pressed again after each run) on a provider whose order list for the site *)
(* "acme" stays the same.  query counts, per order_id, the sends of          *)
(* process_new_orders that the destination answered with success.            *)

\* the order lists the provider may hold
ProviderOrderLists ==
    {<<[id |-> "o1", date |-> 1]>>,
     <<[id |-> "o1", date |-> 1], [id |-> "o2", date |-> 2]>>}

\* the ids of the rows of the list q whose send succeeded under the responses rs
SentIds(q, rs, url) == {q[i].id : i \in {j \in 1..Len(q) : SendWebhook(url, rs[j])}}

\* fetch_ecommerce_data("acme"): insert_ecommerce_order for each order of the list
RepeatIngest ==
    /\ now < MaxCycles
    /\ LET store == IngestOrders([EmptyStore EXCEPT !.orders = orders, !.seq = seq],
                                 duda.orders)
       IN  /\ orders' = store.orders
           /\ seq' = store.seq
    /\ now' = now + 1
    /\ UNCHANGED <<storeUp, duda, wh2, products, sites, forms, log, webhooks, fetch, wh,
                   query, audits, run>>

\* process_new_orders(): one send per pending row, in the order of the list read,
\* each answered in any way; a mark after every success
RepeatNotify ==
    /\ now < MaxCycles
    /\ \E q \in GetEcommerceOrders(NoSite, TRUE) :
          \E rs \in [1..Len(q) -> Responses] :
             LET url == webhooks["new_ecommerce_order"]
                 sent == SentIds(q, rs, url)
             IN  /\ orders' = {IF r.id \in sent THEN [r EXCEPT !.webhook_sent = 1] ELSE r :
                                  r \in orders}
                 /\ log' = log \o [i \in 1..Len(q) |->
                                     WebhookLogEntry("new_ecommerce_order", url, rs[i])]
                 /\ query' = [kind |-> "deliveries",
                              delivered |-> [o \in OrderIds |->
                                 query.delivered[o] + Cardinality({i \in 1..Len(q) :
                                    q[i].order_id = o /\ q[i].id \in sent})],
                              returned |-> Cardinality(sent)]
    /\ now' = now + 1
    /\ UNCHANGED <<storeUp, duda, wh2, products, sites, forms, seq, webhooks, fetch, wh,
                   audits, run>>

InitRepeat ==
    /\ storeUp = TRUE
    /\ \E l \in ProviderOrderLists : duda = [sites |-> {"acme"}, dates |-> Dates, orders |-> l]
    /\ sites = {[site_name |-> "acme", site_title |-> "Acme", last_updated |-> 0]}
    /\ forms = {}
    /\ orders = {}
    /\ products = {}
    /\ now = 0
    /\ seq = SeqZero
    /\ log = <<>>
    /\ webhooks = [e \in EventTypes |-> "https://hook"]
    /\ fetch = FetchIdle
    /\ wh = WhIdle
    /\ wh2 = WhIdle
    /\ query = [kind |-> "deliveries", delivered |-> [o \in OrderIds |-> 0], returned |-> 0]
    /\ audits = {}
    /\ run = RunIdle

NextRepeat ==
    \/ RepeatIngest
    \/ RepeatNotify

SpecRepeat == InitRepeat /\ [][NextRepeat]_vars /\ WF_vars(NextRepeat)
----------------------------------------------------------------------------
(* Properties *)

PendingIds(T) == {r.id : r \in {x \in T : x.webhook_sent = 0}}

OrderDelivered(T, o) == \E r \in T : r.order_id = o /\ r.webhook_sent = 1

\* C1: once an order (by order identifier) has webhook_sent = 1, no step leaves it
\* with webhook_sent = 0 -- in particular not a later insert_ecommerce_order of it.
C1_DeliveredOrderNeverReset ==
    [][\A o \in OrderIds : OrderDelivered(orders, o) => OrderDelivered(orders', o)]_vars

\* C2: a form_submissions row whose webhook_sent is 1 is still stored, with
\* webhook_sent = 1, after every step of the ingestion and notification cycles.
C2_FormDeliveryMonotonic ==
    [][\A r \in forms : r.webhook_sent = 1 =>
          \E r2 \in forms' : r2.id = r.id /\ r2.webhook_sent = 1]_vars

\* a delivered submission, the same submission ingested again under a later id, and
\* a further notification cycle working on the new row
C2_Witness ==
    \E r1 \in forms, r2 \in forms :
        /\ r1.webhook_sent = 1
        /\ r2.id > r1.id
        /\ r2.site_name = r1.site_name
        /\ r2.submission_date = r1.submission_date
        /\ wh.pc = "forms"
        /\ wh.pending # <<>>
        /\ Head(wh.pending).id = r2.id

\* a row of table T whose webhook_sent goes from 0 to 1 in this step is the record the
\* notification cycle is on, and the send_webhook call just made for it returned True
\* on a 2xx answer of a configured destination
FlipsOnlyAfterSuccess(T, T2, pc, event) ==
    \A r \in T :
        (r.webhook_sent = 0 /\ \E r2 \in T2 : r2.id = r.id /\ r2.webhook_sent = 1) =>
            /\ wh.pc = pc
            /\ wh.step = "mark"
            /\ Head(wh.pending).id = r.id
            /\ wh.sent
            /\ wh.attempts[Len(wh.attempts)] = [rec |-> Head(wh.pending), ok |-> TRUE]
            /\ webhooks[event] # ""
            /\ wh.resp.kind = "http"
            /\ wh.resp.code \in 200..299

\* C3: webhook_sent becomes 1 only for the record whose send_webhook call just
\* returned success; never after a non-2xx answer, a timeout, a transport error or
\* with no destination configured.
C3_MarkedOnlyAfterSuccess ==
    [][/\ FlipsOnlyAfterSuccess(forms, forms', "forms", "new_form_submission")
       /\ FlipsOnlyAfterSuccess(orders, orders', "orders", "new_ecommerce_order")]_vars

\* a submission was marked after its delivery succeeded, and an order whose attempt
\* failed in the same cycle is still stored unmarked
C3_Witness ==
    /\ \E r \in forms : r.webhook_sent = 1
    /\ wh.pc = "orders"
    /\ \E i \in DOMAIN wh.attempts :
          /\ ~wh.attempts[i].ok
          /\ wh.attempts[i].rec \in orders
          /\ (wh.step = "send" \/ i < Len(wh.attempts))

StoreErrors == {"store: create", "store: save", "store: status", "store: status failed"}

AuditRow(id) == CHOOSE a \in audits : a.id = id

\* C4: whatever subset of the sources raises in the fetch phase, run_audit raises only
\* when a store call failed; with the store reachable it returns status completed and
\* the stored record has status completed.
C4_SourceFailuresStillComplete ==
    /\ run.pc \in {"except", "raised"} =>
          /\ run.pc = "raised" => run.raised \in StoreErrors
          /\ run.pc = "except" => run.exc \in StoreErrors
    /\ run.pc = "returned" =>
          /\ run.result = "completed"
          /\ \E a \in audits : a.id = run.audit_id /\ a.status = "completed"

\* every source raised (DataForSEO, GA4 and GSC) and the audit returned completed
C4_Witness ==
    /\ run.pc = "returned"
    /\ run.crawl_data = {"crawl_error", "competitors_error", "backlinks_error",
                         "keywords_error", "domain_metrics_error"}
    /\ run.ga4_data = {"error"}
    /\ run.gsc_data = {"error"}
    /\ AuditRow(run.audit_id).status = "completed"

\* C5: every stored audit keeps its row; a completed or failed row keeps its status,
\* and no row goes (back) to running.
C5_AuditStatusOneWay ==
    [][\A a \in audits : \E b \in audits' :
          /\ b.id = a.id
          /\ a.status \in {"completed", "failed"} => b.status = a.status
          /\ a.status = "running" => b.status \in {"running", "completed", "failed"}]_vars

\* one audit ended completed, another failed, both rows stored
C5_Witness ==
    \E a \in audits, b \in audits :
        /\ a.status = "completed"
        /\ b.status = "failed"
        /\ b.error_message # "NULL"

\* C6: when an exception leaves the try block of run_audit, the record ends failed
\* with an error message and completed_at, and run_audit raises that same exception.
C6_FailureRecordedAndReraised ==
    (run.pc = "raised" /\ run.audit_id # 0) =>
        /\ AuditRow(run.audit_id).status = "failed"
        /\ AuditRow(run.audit_id).error_message # "NULL"
        /\ AuditRow(run.audit_id).completed_at # "NULL"
        /\ run.raised = run.exc

\* C7: every finished call of run_audit has left a seo_audits row for the attempt.
C7_EveryAttemptLeavesRecord ==
    run.pc \in {"returned", "raised"} => \E a \in audits : a.id = run.audit_id

\* the rows of the table a query was made on
QueriedTable == IF query.kind = "forms" THEN forms ELSE orders

\* C8: a read with unprocessed_only=True returns each stored row of the kind (and site,
\* if one is given) with webhook_sent = 0 exactly once, and no row with webhook_sent = 1.
C8_PendingExact ==
    (query.kind # "none" /\ query.unprocessed_only) =>
        /\ {query.rows[i] : i \in DOMAIN query.rows}
              = {r \in QueriedTable : /\ r.webhook_sent = 0
                                      /\ (query.site # NoSite => r.site_name = query.site)}
        /\ \A i, j \in DOMAIN query.rows : i # j => query.rows[i] # query.rows[j]

\* a site-scoped pending read returned two rows, newest first though inserted oldest
\* last, while the table also holds a delivered row of that site
C8_Witness ==
    /\ query.kind # "none"
    /\ query.unprocessed_only
    /\ query.site # NoSite
    /\ Len(query.rows) = 2
    /\ query.rows[1].id > query.rows[2].id
    /\ \E r \in QueriedTable : r.webhook_sent = 1 /\ r.site_name = query.site

\* C9: a row id that is pending before a step and not pending after it has been
\* marked by that step (the row is still stored, with webhook_sent = 1).
C9_PendingShrinksOnlyByMark ==
    [][/\ \A id \in PendingIds(forms) \ PendingIds(forms') :
             \E r \in forms' : r.id = id /\ r.webhook_sent = 1
       /\ \A id \in PendingIds(orders) \ PendingIds(orders') :
             \E r \in orders' : r.id = id /\ r.webhook_sent = 1]_vars

\* C10: when process_new_form_submissions / process_new_orders returns, each record of
\* the list it read was tried once, and it is delivered in the store exactly when its
\* attempt succeeded.
C10_CycleMarksExactlySuccesses ==
    [][/\ (wh.pc = "forms" /\ wh'.pc = "orders") =>
             \A i \in DOMAIN wh.attempts :
                /\ \A j \in DOMAIN wh.attempts :
                      i # j => wh.attempts[i].rec.id # wh.attempts[j].rec.id
                /\ wh.attempts[i].ok <=>
                      \E r \in forms : r.id = wh.attempts[i].rec.id /\ r.webhook_sent = 1
       /\ (wh.pc = "orders" /\ wh'.pc = "idle") =>
             \A i \in DOMAIN wh.attempts :
                /\ \A j \in DOMAIN wh.attempts :
                      i # j => wh.attempts[i].rec.id # wh.attempts[j].rec.id
                /\ wh.attempts[i].ok <=>
                      OrderDelivered(orders, wh.attempts[i].rec.order_id)]_vars

\* the stored row of table T with the id of the record a cycle w is about to mark
MarkTargetDelivered(T, w) ==
    \E r \in T : r.id = Head(w.pending).id /\ r.webhook_sent = 1

\* C11: a mark_webhook_sent call on a record that another cycle has already marked
\* finds the false -> true transition taken and reports that it did not perform it,
\* so the calling cycle does not count the record as delivered by it.
C11_MarkIsCompareAndSet ==
    [][/\ (wh.pc = "forms" /\ wh.step = "mark" /\ wh.sent /\ wh'.step = "send"
            /\ MarkTargetDelivered(forms, wh)) => wh'.count = wh.count
       /\ (wh2.pc = "forms" /\ wh2.step = "mark" /\ wh2.sent /\ wh2'.step = "send"
            /\ MarkTargetDelivered(forms, wh2)) => wh2'.count = wh2.count]_vars

\* the sites rows without their last_updated column
WithoutLastUpdated(T) == {[site_name |-> r.site_name, site_title |-> r.site_title] : r \in T}

\* C12: an insert_site call whose input is already stored (an earlier call with the
\* same input) leaves one row for the site and every column but last_updated as it was.
C12_InsertSiteIdempotent ==
    (query.kind = "insert_site"
     /\ [site_name |-> query.data.site_name, site_title |-> query.data.site_title]
            \in WithoutLastUpdated(query.before)) =>
        /\ Cardinality({r \in sites : r.site_name = query.data.site_name}) = 1
        /\ WithoutLastUpdated(sites) = WithoutLastUpdated(query.before)

\* the same site input stored a second time, at a later clock value, next to another site
C12_Witness ==
    /\ query.kind = "insert_site"
    /\ \E r \in query.before :
          /\ r.site_name = query.data.site_name
          /\ r.site_title = query.data.site_title
          /\ \E r2 \in sites : r2.site_name = r.site_name /\ r2.last_updated > r.last_updated
    /\ Cardinality(sites) = 2

\* C13: an insert_ecommerce_order call whose input is already stored leaves that row
\* as it was, surrogate id and webhook_sent included.
C13_InsertOrderIdempotent ==
    query.kind = "insert_ecommerce_order" =>
        \A r \in query.before :
            (/\ r.order_id = query.data.order_id
             /\ r.site_name = query.data.site_name
             /\ r.order_date = query.data.order_date) => r \in orders

\* C14: after every call there is at most one ecommerce_products row per
\* (site_name, product_id); an insert_product call leaves the pair's row with the
\* values of its input, and no call changes the row of another pair.
C14_ProductCompositeUnique ==
    [][/\ \A r1 \in products', r2 \in products' :
             (r1.site_name = r2.site_name /\ r1.product_id = r2.product_id) => r1 = r2
       /\ (now' # now /\ query'.kind = "insert_product") =>
             /\ \E r \in products' : /\ r.site_name = query'.data.site_name
                                     /\ r.product_id = query'.data.product_id
                                     /\ r.price = query'.data.price
             /\ \A r \in products :
                   (r.site_name # query'.data.site_name
                    \/ r.product_id # query'.data.product_id) => r \in products'
       /\ (now' # now /\ query'.kind # "insert_product") => products' = products]_vars

\* a product inserted twice with different prices, next to a product of another pair
C14_Witness ==
    /\ query.kind = "insert_product"
    /\ \E r \in query.before :
          /\ r.site_name = query.data.site_name
          /\ r.product_id = query.data.product_id
          /\ r.price # query.data.price
    /\ Cardinality(products) = 2

\* C15: an insert_form_submission call adds one row, with an id no row has had and
\* webhook_sent = 0, and leaves every stored row as it was, also when the same
\* submission is already stored; the table holds one row per call made.
C15_FormAppendOnly ==
    [][(now' # now /\ query'.kind = "insert_form_submission") =>
          /\ forms \subseteq forms'
          /\ Cardinality(forms' \ forms) = 1
          /\ \A r \in forms' \ forms :
                /\ r.id > seq.form_submissions
                /\ \A r0 \in forms : r.id > r0.id
                /\ r.webhook_sent = 0
                /\ r.site_name = query'.data.site_name
                /\ r.submission_date = query'.data.submission_date
          /\ Cardinality(forms') = seq'.form_submissions]_vars

\* the same submission stored twice, the first of the two rows already delivered
C15_Witness ==
    /\ query.kind = "insert_form_submission"
    /\ \E r1 \in forms, r2 \in forms :
          /\ r1.id < r2.id
          /\ r1.site_name = r2.site_name
          /\ r1.submission_date = r2.submission_date
          /\ r1.webhook_sent = 1
          /\ r2.webhook_sent = 0
          /\ r2 \notin query.before

\* C16: a send_webhook call for an event type without a destination returns False,
\* makes no request, and leaves the log and every webhook_sent flag as they were.
C16_UnconfiguredIsNoOp ==
    [][(query'.kind = "send_webhook" /\ webhooks[query'.event] = "") =>
          /\ query'.result = FALSE
          /\ ~query'.request
          /\ query'.resp = NoResponse
          /\ log' = log
          /\ forms' = forms
          /\ orders' = orders]_vars

\* a call without a destination, made after a logged call of the configured event
\* type, with a submission and an order still pending
C16_Witness ==
    /\ query.kind = "send_webhook"
    /\ webhooks[query.event] = ""
    /\ ~query.result
    /\ Len(log) = 1
    /\ \E r \in forms : r.webhook_sent = 0
    /\ \E r \in orders : r.webhook_sent = 0

\* C17: on a configured destination send_webhook returns True exactly when the peer
\* answered with a status code from 200 to 299.
C17_SuccessIffAny2xx ==
    (query.kind = "send_webhook" /\ query.request) =>
        (query.result <=> (query.resp.kind = "http" /\ query.resp.code \in 200..299))

\* C18: a send_webhook call on a configured destination has appended one webhook_log
\* row when it returns: success as returned, response_code the status code received,
\* or 0 after a timeout or a transport error.
C18_EveryAttemptLogged ==
    (query.kind = "send_webhook" /\ query.request) =>
        /\ Len(log) = Len(query.before) + 1
        /\ SubSeq(log, 1, Len(query.before)) = query.before
        /\ log[Len(log)].event_type = query.event
        /\ log[Len(log)].webhook_url = webhooks[query.event]
        /\ log[Len(log)].success = (IF query.result THEN 1 ELSE 0)
        /\ log[Len(log)].response_code
              = (IF query.resp.kind = "http" THEN query.resp.code ELSE 0)

\* a success with code 200 is in the log and the call after it timed out
C18_Witness ==
    /\ query.kind = "send_webhook"
    /\ query.resp.kind = "timeout"
    /\ Len(log) = 2
    /\ log[1].success = 1
    /\ log[1].response_code = 200
    /\ log[2].success = 0
    /\ log[2].response_code = 0

\* the site names with a row in sites
StoredSites == {r.site_name : r \in sites}

\* C19: in one ingestion cycle every site upsert comes before the first write of a
\* submission, an order or a product, and every row such a write adds names a site
\* that has its sites row when the write is made.
C19_SitesBeforeDependents ==
    [][/\ sites' # sites =>
            /\ fetch.pc = "sites"
            /\ fetch.seen = {}
            /\ forms = {} /\ orders = {} /\ products = {}
            /\ forms' = forms /\ orders' = orders /\ products' = products
       /\ \A r \in (forms' \ forms) \cup (orders' \ orders) \cup (products' \ products) :
            /\ fetch.pc \in {"forms", "products", "orders"}
            /\ r.site_name = fetch.site
            /\ r.site_name \in StoredSites]_vars

\* the provider listed two sites and the store took only one of them; the cycle is
\* over and left a submission, a product and an order, all of the stored site
C19_Witness ==
    /\ fetch.pc = "done"
    /\ duda.sites = SiteNames
    /\ Cardinality(StoredSites) = 1
    /\ forms # {} /\ products # {} /\ orders # {}

\* C20: a provider record that cannot be normalized or stored is skipped: no error
\* leaves the record loop, and when the cycle is over every site read from the
\* store had each of its submissions that can be normalized handed to the store.
C20_BadRecordSkipped ==
    /\ fetch.pc # "raised"
    /\ fetch.pc = "done" =>
          \A s \in fetch.read : \A i \in 1..Len(duda.forms) :
              ~ExtractRaises(duda.forms[i])
                  => <<s, "form", Len(duda.forms) + 1 - i>> \in fetch.seen

\* C21: a write operation of the store that reports failure (returns False) has
\* left every table as it was before the call.
C21_FailedWriteChangesNothing ==
    (query.kind \in {"insert_site", "insert_form_submission", "insert_ecommerce_order",
                     "insert_product", "mark_webhook_sent", "log_webhook"}
        /\ ~query.result)
      => Tables = query.before

\* the value of the first key of the list, from position i on, that the dict holds
\* with a value other than null; the pair <<found, value>>
RECURSIVE FirstNonNull(_, _, _)
FirstNonNull(keys, i, d) ==
    IF i > Len(keys) THEN <<FALSE, Null>>
    ELSE IF keys[i] \in DOMAIN d /\ d[keys[i]] # Null THEN <<TRUE, d[keys[i]]>>
    ELSE FirstNonNull(keys, i + 1, d)

\* C22: the extracted email is the value of the first candidate key, in priority
\* order (the field keys, then the top-level keys), that is present with a value
\* other than null; it is null only when no candidate has such a value.
C22_FirstNonNullCandidate ==
    query.kind = "extract_email" =>
        LET s == query.submission
            inFields == FirstNonNull(EmailFieldKeys, 1, DictOr(s.fields, s.data))
            inTop == FirstNonNull(EmailTopKeys, 1, s.top)
        IN  query.result = (IF inFields[1] THEN inFields[2]
                            ELSE IF inTop[1] THEN inTop[2]
                            ELSE Null)

\* C23: a provider site without a site identifier, an order without an order
\* identifier and a product without a product identifier leave no stored row.
C23_KeylessRecordNotStored ==
    /\ \A r \in sites : r.site_name # Null
    /\ \A r \in orders : r.order_id # Null
    /\ \A r \in products : r.product_id # Null

\* C24: an ingestion cycle, a notification cycle and an audit that have started
\* each come to their end, whatever the remote peers do.
C24_CyclesTerminate ==
    /\ (fetch.pc \notin {"idle", "done"}) ~> (fetch.pc = "done")
    /\ (wh.pc # "idle") ~> (wh.pc = "idle")
    /\ (run.pc \notin {"idle", "returned", "raised"}) ~> (run.pc \in {"returned", "raised"})

\* C25: two ingestion cycles on the snapshots A and B leave the same tables, the
\* last_updated column aside, whether A or B is ingested first.
C25_IngestionCommutes ==
    query.kind = "other_order" =>
        /\ WithoutLastUpdated(sites) = WithoutLastUpdated(query.store.sites)
        /\ forms = query.store.forms
        /\ orders = query.store.orders
        /\ products = query.store.products

\* C26: in every state get_audit_results(id) returns the audit record of that id,
\* or not-found when there is none, and list_audits returns the audit records (of
\* the domain given, if one is) newest first; neither raises.
C26_AuditReadsTotal ==
    /\ query.kind = "get_audit_results" =>
          /\ ~query.result.raised
          /\ query.result.rows \in {<<a>> : a \in {b \in audits : b.id = query.arg}}
                                      \cup {<<>>}
          /\ (query.arg \in Ids(audits)) => query.result.rows # <<>>
    /\ query.kind = "list_audits" =>
          /\ ~query.result.raised
          /\ {query.result.rows[i] : i \in 1..Len(query.result.rows)}
                = {a \in audits : query.arg # Null => a.domain = query.arg}
          /\ \A i, j \in 1..Len(query.result.rows) :
                i < j => query.result.rows[i].id > query.result.rows[j].id

\* C27: when run_audit makes its source calls the audit has its seo_audits row,
\* with status running: the row is written before the first fetch, and no fetch is
\* made for an audit without a row.
C27_RecordBeforeFetch ==
    [][(run.pc = "fetch" /\ run'.pc # "fetch") =>
          \E a \in audits : a.id = run.audit_id /\ a.status = "running"]_vars

\* the second audit has fetched from its sources; the record of the first one is
\* closed and the record of the second one is running
C27_Witness ==
    /\ run.pc = "analyze"
    /\ run.audit_id = 2
    /\ \E a \in audits : a.id = 2 /\ a.status = "running"
    /\ \E a \in audits : a.id = 1 /\ a.status # "running"

\* the sources whose outcome the claim C28 speaks about
PayloadSources == {"crawl", "competitors", "backlinks", "keywords", "domain_metrics"}

\* C28: after the fetch phase the raw payloads hold, for each source, either the
\* key of the source or its <source>_error key, and never both nor neither.
C28_DataOrErrorPerSource ==
    run.pc = "analyze" =>
        \A s \in PayloadSources :
            (s \in run.crawl_data) # ((s \o "_error") \in run.crawl_data)

\* C29: the analysis phase does not raise, and the insights summary it returns has
\* a section for a source exactly when the data key of that source is in the
\* fetched payloads ("pages" for the analytics and the search-console source).
C29_SectionPerPresentSource ==
    /\ run.pc = "except" => run.exc # "analysis"
    /\ run.pc = "save" =>
          /\ \A s \in PayloadSources : (s \in run.insights) <=> (s \in run.crawl_data)
          /\ ("ga4" \in run.insights)
                <=> (run.ga4_data # NoData /\ "pages" \in run.ga4_data)
          /\ ("gsc" \in run.insights)
                <=> (run.gsc_data # NoData /\ "pages" \in run.gsc_data)

\* C30: a send_webhook call makes at most one request to the destination (one
\* webhook_log row at most per call), and within one notification cycle no record
\* is tried twice, whether its delivery succeeded or failed.
C30_OneAttemptPerRecord ==
    [][/\ Len(log') <= Len(log) + 1
       /\ \A i, j \in 1..Len(wh'.attempts) :
             i # j => wh'.attempts[i].rec.id # wh'.attempts[j].rec.id]_vars

\* the delivery of the first submission of the cycle failed, the cycle went on to
\* the second one, and the first one is still pending in the store
C30_Witness ==
    /\ wh.pc = "forms"
    /\ Len(wh.attempts) = 2
    /\ ~wh.attempts[1].ok
    /\ wh.attempts[1].rec.id # wh.attempts[2].rec.id
    /\ \E r \in forms : r.id = wh.attempts[1].rec.id /\ r.webhook_sent = 0
    /\ Len(log) = 2

\* C31: a send_webhook call, whatever its outcome, leaves every stored record and
\* its delivered flag as they were; the one thing it writes is a row appended to
\* the delivery log.
C31_SendWritesLogOnly ==
    [][query'.kind = "send_webhook" =>
          /\ forms' = forms
          /\ orders' = orders
          /\ sites' = sites
          /\ products' = products
          /\ audits' = audits
          /\ \/ log' = log
             \/ /\ Len(log') = Len(log) + 1
                /\ SubSeq(log', 1, Len(log)) = log]_vars

\* two calls were answered with a success code and logged as successes; the
\* submission and the order are stored with their delivered flag still unset
C31_Witness ==
    /\ query.kind = "send_webhook"
    /\ query.result
    /\ Len(log) = 2
    /\ log[1].success = 1
    /\ log[2].success = 1
    /\ \A r \in forms \cup orders : r.webhook_sent = 0
    /\ forms # {}
    /\ orders # {}

\* C32: after insert_site, insert_product or insert_ecommerce_order the stored row
\* of the key is the input: every column holds the input's value, a column the
\* statement does not write (webhook_sent) holds its default, the id is a new one,
\* and nothing of the row stored before under that key is left.
C32_UpsertReplacesRow ==
    /\ query.kind = "insert_site" =>
          {r \in sites : r.site_name = query.data.site_name}
             = {[site_name |-> query.data.site_name, site_title |-> query.data.site_title,
                 last_updated |-> now - 1]}
    /\ query.kind = "insert_ecommerce_order" =>
          \E id \in Ids(orders) \ Ids(query.before) :
             {r \in orders : r.order_id = query.data.order_id}
                = {[id |-> id, order_id |-> query.data.order_id,
                    site_name |-> query.data.site_name,
                    order_date |-> query.data.order_date, webhook_sent |-> 0]}
    /\ query.kind = "insert_product" =>
          \E id \in Ids(products) \ Ids(query.before) :
             {r \in products : /\ r.site_name = query.data.site_name
                               /\ r.product_id = query.data.product_id}
                = {[id |-> id, site_name |-> query.data.site_name,
                    product_id |-> query.data.product_id, price |-> query.data.price]}

\* an order that was stored and marked delivered was upserted with another site and
\* another date
C32_Witness ==
    /\ query.kind = "insert_ecommerce_order"
    /\ \E old \in query.before :
          /\ old.order_id = query.data.order_id
          /\ old.webhook_sent = 1
          /\ old.site_name # query.data.site_name
          /\ old.order_date # query.data.order_date
    /\ Cardinality(orders) = 1

\* C33: the delivery log only grows: every step leaves the rows already in
\* webhook_log in place and unchanged, and adds rows at the end if it adds any.
C33_LogAppendOnly ==
    [][/\ Len(log') >= Len(log)
       /\ SubSeq(log', 1, Len(log)) = log]_vars

\* a failed attempt and then a successful one for the same event are in the log,
\* the second cycle having marked the submission
C33_Witness ==
    /\ Len(log) = 2
    /\ log[1].event_type = log[2].event_type
    /\ log[1].success = 0
    /\ log[2].success = 1
    /\ \E r \in forms : r.webhook_sent = 1

\* C34: the response body of every webhook_log row is at most 500 characters
\* long, whichever path of send_webhook wrote the row.
C34_BodyBounded ==
    \A i \in 1..Len(log) : log[i].response_body <= BodyLimit

\* the first key of the list that the dict holds
FirstKeyIn(keys, d) ==
    keys[CHOOSE i \in 1..Len(keys) :
            /\ keys[i] \in DOMAIN d
            /\ \A j \in 1..(i - 1) : keys[j] \notin DOMAIN d]

AnyKeyIn(keys, d) == \E i \in 1..Len(keys) : keys[i] \in DOMAIN d

\* the first of the keys under which the dict holds a non-empty string
FilledUnder(keys, d) ==
    IF \E i \in 1..Len(keys) : keys[i] \in DOMAIN d /\ Truthy(d[keys[i]])
    THEN d[keys[CHOOSE i \in 1..Len(keys) :
                   /\ keys[i] \in DOMAIN d /\ Truthy(d[keys[i]])
                   /\ \A j \in 1..(i - 1) : ~(keys[j] \in DOMAIN d /\ Truthy(d[keys[j]]))]]
    ELSE PyNone

\* the result of name resolution, case by case
NameResolved(s, r) ==
    LET f == IF DOMAIN s.fields # {} THEN s.fields ELSE s.data
        single == AnyKeyIn(NameFieldKeys, f)
        first == FilledUnder(<<"first_name", "First Name">>, f)
        last == FilledUnder(<<"last_name", "Last Name">>, f)
        top == AnyKeyIn(NameTopKeys, s.top)
    IN  /\ single => r = f[FirstKeyIn(NameFieldKeys, f)]
        /\ ~single /\ ~first.none /\ ~last.none =>
              /\ ~r.none
              /\ Len(r.text) = Len(first.text) + 1 + Len(last.text)
              /\ SubSeq(r.text, 1, Len(first.text)) = first.text
              /\ r.text[Len(first.text) + 1] = " "
              /\ SubSeq(r.text, Len(first.text) + 2, Len(r.text)) = last.text
        /\ ~single /\ ~first.none /\ last.none => r = first
        /\ ~single /\ first.none /\ top => r = s.top[FirstKeyIn(NameTopKeys, s.top)]
        /\ ~single /\ first.none /\ ~top => r = PyNone

C36_AuditRowMatchesStatus ==
    \A a \in audits :
        /\ a.status \in {"running", "completed", "failed"}
        /\ a.status = "completed" =>
              /\ a.insights # "NULL"
              /\ a.crawl_data # "NULL"
              /\ a.completed_at # "NULL"
        /\ a.status = "running" =>
              /\ a.completed_at = "NULL"
              /\ a.error_message = "NULL"
        /\ a.status = "failed" =>
              /\ a.error_message # "NULL"
              /\ a.completed_at # "NULL"

\* one audit completed, another failed after its results were saved and its
\* exception has left run_audit
C36_Witness ==
    /\ \E a \in audits : a.status = "completed" /\ a.insights = "JSON"
    /\ \E b \in audits : b.status = "failed" /\ b.insights = "JSON"
    /\ run.pc = "raised"

\* C37: with the provider's order list unchanged, no order_id is delivered
\* successfully more than once over any number of ingestion and notification
\* cycles, and the set of pending orders is in the end empty for good.
C37_DeliveredAtMostOnce ==
    /\ [](\A o \in OrderIds : query.delivered[o] <= 1)
    /\ <>[](PendingIds(orders) = {})

\* C38: with an ingestion cycle running beside the notification cycle, every
\* mark_webhook_sent that follows a successful delivery of an order sets the
\* flag of the row that was read as pending, and the count process_new_orders
\* returns is the number of orders of its list that are delivered in the store.
C38_CountEqualsMarkedOrders ==
    [][/\ (wh.pc = "orders" /\ wh.step = "mark" /\ wh.sent /\ storeUp
             /\ wh'.step = "send") =>
             \E r \in orders' : /\ r.id = Head(wh.pending).id
                                /\ r.order_id = Head(wh.pending).order_id
                                /\ r.webhook_sent = 1
       /\ (wh.pc = "orders" /\ wh'.pc = "idle" /\ storeUp) =>
             wh.count = Cardinality({i \in DOMAIN wh.attempts :
                           /\ wh.attempts[i].ok
                           /\ OrderDelivered(orders, wh.attempts[i].rec.order_id)})]_vars

====
